---- MODULE Spec2Model ----
(***************************************************************************)
(* OSR assessment backend: the in-memory response store, the request       *)
(* handlers that write and read it, the scoring functions and the cached   *)
(* variant of the handlers.                                                *)
(*                                                                         *)
(* Three modules of the repository define the same routes over a module    *)
(* global responses_storage:                                               *)
(*   "models"  src/backend/src/models/assessment.py  (normalized scoring)  *)
(*   "app"     src/backend/app.py                    (adds batch save)     *)
(*   "routes"  src/backend/src/routes/assessment.py  (adds the cache)      *)
(* variant says which of them is the running program.                      *)
(***************************************************************************)
EXTENDS Integers, Sequences, FiniteSets, TLC

VARIABLES
    variant,            \* which module serves the requests
    responses_storage,  \* {store_id: {section_id: {response_key: response}}}
    cache,              \* flask_caching SimpleCache: cache key -> cached response
    result,             \* the response of the last request that completed
    threads             \* request handlers in flight (step-level specifications)

vars == <<variant, responses_storage, cache, result, threads>>

(***************************************************************************)
(* Bounds of the model.                                                    *)
(***************************************************************************)
\* No more than MaxStored responses are held at once (overwrites always allowed).
MaxStored == 2
\* A batch carries at most MaxBatch entries.
MaxBatch == 2

(***************************************************************************)
(* JSON values as the handlers see them after request.get_json().          *)
(* t is the Python type, s the text of a scalar, f the items of a dict.    *)
(***************************************************************************)
EmptyDict == << >>

JStr(s) == [t |-> "str", s |-> s, f |-> EmptyDict]
JNum(s) == [t |-> "num", s |-> s, f |-> EmptyDict]
JNull == [t |-> "null", s |-> "", f |-> EmptyDict]
JList == [t |-> "list", s |-> "", f |-> EmptyDict]
JDict(f) == [t |-> "dict", s |-> "", f |-> f]

\* d[k] = v on a dict
Put(d, k, v) == [a \in DOMAIN d \cup {k} |-> IF a = k THEN v ELSE d[a]]

\* isinstance(v, dict)
IsDict(v) == v.t = "dict"

\* Python truthiness of a decoded JSON value (`not data`)
Truthy(v) ==
    CASE v.t = "dict" -> DOMAIN v.f # {}
      [] v.t = "str" -> v.s # ""
      [] v.t = "num" -> v.s # "0"
      [] v.t = "list" -> FALSE
      [] v.t = "null" -> FALSE

\* str(v) of a decoded JSON scalar: a string is itself, a number its decimal
\* text, null is "None"
Str(v) ==
    CASE v.t = "str" -> v.s
      [] v.t = "num" -> v.s
      [] v.t = "null" -> "None"
      [] OTHER -> "{}"

(***************************************************************************)
(* Scoring constants, models/assessment.py                                 *)
(***************************************************************************)
STANDARD_POINTS_PER_PROCEDURE == 2

\* the total with every section counted as 10 points
TotalMaxPointsMiscounted == 10 + 10 + 10 + 10 + 10

STANDARD_TOTAL_MAX_POINTS == 46

FixedSections == <<"availability", "checkout", "fulfillment", "people", "culture">>

\* STANDARD_MAX_POINTS_PER_SECTION.get(section_id, 10)
STANDARD_MAX_POINTS_PER_SECTION(section_id) ==
    CASE section_id = "availability" -> 10
      [] section_id = "checkout" -> 10
      [] section_id = "fulfillment" -> 8
      [] section_id = "people" -> 10
      [] section_id = "culture" -> 8
      [] OTHER -> 10

\* a table that gives a listed store the foundation questions in every section
StoreFoundationsEverySection(store_id) ==
    IF store_id \in {"1660", "2297", "3523", "2951", "5686"}
    THEN {"availability", "checkout", "fulfillment", "people", "culture"}
    ELSE {}

\* STORE_FOUNDATIONS.get(store_id, [])
STORE_FOUNDATIONS(store_id) ==
    CASE store_id = "1660" -> {"people"}
      [] store_id = "2297" -> {"fulfillment"}
      [] store_id = "3523" -> {"fulfillment"}
      [] store_id = "2951" -> {"people"}
      [] store_id = "5686" -> {"availability", "fulfillment", "checkout"}
      [] OTHER -> {}

\* Python round() of the non-negative rational n/d: to nearest, ties to even
Round(n, d) ==
    LET q == n \div d
        r == n % d
    IN  IF 2 * r < d THEN q
        ELSE IF 2 * r > d THEN q + 1
        ELSE IF q % 2 = 0 THEN q ELSE q + 1

\* the bands with the thresholds excluded
ColorAboveThreshold(percentage) ==
    IF percentage > 80 THEN "green"
    ELSE IF percentage > 60 THEN "yellow"
    ELSE "red"

ColorOf(percentage) ==
    IF percentage >= 80 THEN "green"
    ELSE IF percentage >= 60 THEN "yellow"
    ELSE "red"

\* a fallback record with no color and no count of completed questions
ZeroSectionScoreBare(section_id) ==
    [score |-> 0,
     max_score |-> 10,
     percentage |-> 0,
     color |-> "",
     questions_completed |-> -1,
     total_questions |-> 5,
     normalized |-> TRUE]

\* the record both scoring functions fall back to
ZeroSectionScore(section_id) ==
    [score |-> 0,
     max_score |-> STANDARD_MAX_POINTS_PER_SECTION(section_id),
     percentage |-> 0,
     color |-> "red",
     questions_completed |-> 0,
     total_questions |-> 5,
     normalized |-> TRUE]

\* total_questions by section and foundation status
TotalQuestions(section_id, has_foundation_questions) ==
    IF has_foundation_questions
    THEN CASE section_id = "people" -> 8
           [] section_id = "availability" -> 7
           [] section_id = "fulfillment" -> 7
           [] section_id = "checkout" -> 8
           [] OTHER -> 5
    ELSE CASE section_id = "people" -> 5
           [] section_id = "availability" -> 4
           [] section_id = "fulfillment" -> 4
           [] section_id = "checkout" -> 5
           [] section_id = "culture" -> 4
           [] OTHER -> 5

\* a check that counts a "no" record only when it has no field besides
\* hasIssues and saved_timestamp
IsPositivePlainRecord(resp) ==
    /\ IsDict(resp)
    /\ "hasIssues" \in DOMAIN resp.f
    /\ resp.f["hasIssues"] = JStr("no")
    /\ DOMAIN resp.f \subseteq {"hasIssues", "saved_timestamp"}

\* a check that counts the records that report an issue
IsPositiveOnIssues(resp) ==
    /\ IsDict(resp)
    /\ "hasIssues" \in DOMAIN resp.f
    /\ resp.f["hasIssues"] = JStr("yes")

\* a check that counts every record as positive
IsPositiveAnyRecord(resp) == IsDict(resp)

\* isinstance(resp, dict) and resp.get('hasIssues') == 'no'
IsPositive(resp) ==
    /\ IsDict(resp)
    /\ "hasIssues" \in DOMAIN resp.f
    /\ resp.f["hasIssues"] = JStr("no")

\* calculate_section_score from the two counts on: the score record of a
\* section that holds total_responses responses, positive_responses of them
\* positive
SectionScoreFromCounts(store_id, section_id, total_responses, positive_responses) ==
    LET raw_score == positive_responses * STANDARD_POINTS_PER_PROCEDURE
        has_foundation_questions == section_id \in STORE_FOUNDATIONS(store_id)
        total_questions == TotalQuestions(section_id, has_foundation_questions)
        raw_max_score == total_questions * STANDARD_POINTS_PER_PROCEDURE
        standard_max_score == STANDARD_MAX_POINTS_PER_SECTION(section_id)
        \* raw_score * (standard_max_score / raw_max_score), rounded
        normalized_score ==
            IF raw_max_score > 0
            THEN Round(raw_score * standard_max_score, raw_max_score)
            ELSE raw_score
        percentage ==
            IF standard_max_score > 0
            THEN Round(normalized_score * 100, standard_max_score)
            ELSE 0
    IN  [score |-> normalized_score,
         raw_score |-> raw_score,
         max_score |-> standard_max_score,
         raw_max_score |-> raw_max_score,
         percentage |-> percentage,
         color |-> ColorOf(percentage),
         questions_completed |-> total_responses,
         total_questions |-> total_questions,
         normalized |-> TRUE,
         normalization_factor |->
             IF raw_max_score > 0
             THEN <<standard_max_score, raw_max_score>>
             ELSE <<1, 1>>]

calculate_section_score(storage, store_id, section_id) ==
    IF store_id \notin DOMAIN storage \/ section_id \notin DOMAIN storage[store_id]
    THEN ZeroSectionScore(section_id)
    ELSE
      LET section_responses == storage[store_id][section_id]
          total_responses == Cardinality(DOMAIN section_responses)
          positive_responses ==
              Cardinality({k \in DOMAIN section_responses : IsPositive(section_responses[k])})
      IN  SectionScoreFromCounts(store_id, section_id, total_responses, positive_responses)

\* an empty result whose maximum is the sum over no sections
ZeroStoreScoreNoMax ==
    [overall_score |-> 0,
     overall_max_score |-> 0,
     overall_percentage |-> 0,
     overall_color |-> "red",
     sections_completed |-> 0,
     total_sections |-> 5,
     section_scores |-> EmptyDict,
     normalized |-> TRUE]

ZeroStoreScore ==
    [overall_score |-> 0,
     overall_max_score |-> STANDARD_TOTAL_MAX_POINTS,
     overall_percentage |-> 0,
     overall_color |-> "red",
     sections_completed |-> 0,
     total_sections |-> 5,
     section_scores |-> EmptyDict,
     normalized |-> TRUE]

RECURSIVE SumScoresButLast(_, _, _)
\* an accumulation that leaves out the last section
SumScoresButLast(section_scores, i, field) ==
    IF i >= Len(FixedSections) THEN 0
    ELSE section_scores[FixedSections[i]][field]
         + SumScoresButLast(section_scores, i + 1, field)

RECURSIVE SumScores(_, _, _)
\* the accumulation loop of calculate_store_score over sections[i..]
SumScores(section_scores, i, field) ==
    IF i > Len(FixedSections) THEN 0
    ELSE section_scores[FixedSections[i]][field] + SumScores(section_scores, i + 1, field)

\* a store score that counts as completed the sections with a score above 0
StoreScoreCountingScored(storage, store_id) ==
    IF store_id \notin DOMAIN storage
    THEN ZeroStoreScore
    ELSE
      LET sections == {FixedSections[i] : i \in 1..Len(FixedSections)}
          section_scores == [section \in sections |->
                                calculate_section_score(storage, store_id, section)]
          total_score == SumScores(section_scores, 1, "score")
          overall_percentage == Round(total_score * 100, STANDARD_TOTAL_MAX_POINTS)
      IN  [overall_score |-> total_score,
           overall_max_score |-> STANDARD_TOTAL_MAX_POINTS,
           overall_percentage |-> overall_percentage,
           overall_color |-> ColorOf(overall_percentage),
           sections_completed |->
               Cardinality({s \in sections : section_scores[s].score > 0}),
           total_sections |-> Len(FixedSections),
           section_scores |-> section_scores,
           normalized |-> TRUE]

\* calculate_store_score from the section scores of its loop on
StoreScoreFromSections(section_scores) ==
    LET sections == {FixedSections[i] : i \in 1..Len(FixedSections)}
        total_score == SumScores(section_scores, 1, "score")
        summed_max == SumScores(section_scores, 1, "max_score")
        total_max_score ==
            IF summed_max # STANDARD_TOTAL_MAX_POINTS
            THEN STANDARD_TOTAL_MAX_POINTS
            ELSE summed_max
        sections_completed ==
            Cardinality({s \in sections : section_scores[s].questions_completed > 0})
        overall_percentage ==
            IF total_max_score > 0 THEN Round(total_score * 100, total_max_score) ELSE 0
    IN  [overall_score |-> total_score,
         overall_max_score |-> total_max_score,
         overall_percentage |-> overall_percentage,
         overall_color |-> ColorOf(overall_percentage),
         sections_completed |-> sections_completed,
         total_sections |-> Len(FixedSections),
         section_scores |-> section_scores,
         normalized |-> TRUE]

calculate_store_score(storage, store_id) ==
    IF store_id \notin DOMAIN storage
    THEN ZeroStoreScore
    ELSE StoreScoreFromSections(
             [section \in {FixedSections[i] : i \in 1..Len(FixedSections)} |->
                 calculate_section_score(storage, store_id, section)])

(***************************************************************************)
(* The response store and the write handlers.                              *)
(***************************************************************************)
\* number of responses held in all stores and sections
RECURSIVE CountIn(_, _)
CountIn(d, keys) ==
    IF keys = {} THEN 0
    ELSE LET k == CHOOSE k \in keys : TRUE
         IN  Cardinality(DOMAIN d[k]) + CountIn(d, keys \ {k})

RECURSIVE CountStored(_, _)
CountStored(storage, stores) ==
    IF stores = {} THEN 0
    ELSE LET s == CHOOSE s \in stores : TRUE
         IN  CountIn(storage[s], DOMAIN storage[s]) + CountStored(storage, stores \ {s})

\* a structure check that gives the section a new dict on every call
EnsureEmptySection(storage, store_id, section_id) ==
    Put(storage, store_id,
        Put(IF store_id \in DOMAIN storage THEN storage[store_id] ELSE EmptyDict,
            section_id, EmptyDict))

ensure_storage_structure(storage, store_id, section_id) ==
    LET s1 == IF store_id \notin DOMAIN storage
              THEN Put(storage, store_id, EmptyDict)
              ELSE storage
    IN  IF section_id \notin DOMAIN s1[store_id]
        THEN Put(s1, store_id, Put(s1[store_id], section_id, EmptyDict))
        ELSE s1

\* a write that assigns the section a new dict holding only the new key
StoreResponseFreshSection(storage, store_id, section_id, response_key, response) ==
    Put(storage, store_id,
        Put(storage[store_id], section_id, Put(EmptyDict, response_key, response)))

\* a write that puts the response under the key in every section of the store
StoreResponseEverySection(storage, store_id, section_id, response_key, response) ==
    Put(storage, store_id,
        [x \in DOMAIN storage[store_id] |->
            Put(storage[store_id][x], response_key, response)])

\* a write that keeps what the key already holds
StoreResponseKeepFirst(storage, store_id, section_id, response_key, response) ==
    IF response_key \in DOMAIN storage[store_id][section_id]
    THEN storage
    ELSE Put(storage, store_id,
             Put(storage[store_id], section_id,
                 Put(storage[store_id][section_id], response_key, response)))

\* responses_storage[store_id][section_id][response_key] = response
StoreResponse(storage, store_id, section_id, response_key, response) ==
    Put(storage, store_id,
        Put(storage[store_id], section_id,
            Put(storage[store_id][section_id], response_key, response)))

\* f"{question_id}-{procedure_index}"
ResponseKey(question_id, procedure_index) == question_id \o "-" \o procedure_index

\* if isinstance(response, dict): response['saved_timestamp'] = utcnow().isoformat()
Stamp(response, now) ==
    IF IsDict(response)
    THEN JDict(Put(response.f, "saved_timestamp", JStr(now)))
    ELSE response

SaveRequiredFields == <<"store", "section", "question_id", "procedure_index", "response">>
BatchRequiredFields == <<"store", "section", "responses">>

RECURSIVE FirstMissing(_, _, _)
\* the first field of required_fields[i..] that is not in data, "" when none is
FirstMissing(data, required_fields, i) ==
    IF i > Len(required_fields) THEN ""
    ELSE IF required_fields[i] \notin DOMAIN data.f THEN required_fields[i]
    ELSE FirstMissing(data, required_fields, i + 1)

\* a check that forgets the sentinel
InvalidIdEmptyOnly(id) == id = ""

\* `not store_id or store_id == 'undefined'`
InvalidId(id) == id = "" \/ id = "undefined"

NoBody == EmptyDict

Response(op, status, error, store_id, section_id, body) ==
    [op |-> op, status |-> status, error |-> error,
     store |-> store_id, section |-> section_id, body |-> body]

\* the checks of save_response and batch_save_responses that precede any
\* access to the store: "" when the request passes them, the error otherwise
ValidationError(data, required_fields) ==
    IF ~Truthy(data) THEN "No JSON data provided"
    ELSE IF FirstMissing(data, required_fields, 1) # ""
    THEN "Missing required field: " \o FirstMissing(data, required_fields, 1)
    ELSE IF InvalidId(Str(data.f["store"])) THEN "Invalid store ID"
    ELSE IF InvalidId(Str(data.f["section"])) THEN "Invalid section ID"
    ELSE ""

\* save_response of the module `v` on request body data at time now:
\* the store and the response it leaves
SaveResponse(v, storage, data, now) ==
    IF ValidationError(data, SaveRequiredFields) # ""
    THEN [storage |-> storage,
          response |-> Response("save_response", 400,
                                ValidationError(data, SaveRequiredFields), "", "", NoBody)]
    ELSE
      LET store_id == Str(data.f["store"])
          section_id == Str(data.f["section"])
          question_id == Str(data.f["question_id"])
          procedure_index == Str(data.f["procedure_index"])
          response == data.f["response"]
          ensured == ensure_storage_structure(storage, store_id, section_id)
          response_key == ResponseKey(question_id, procedure_index)
          saved == StoreResponse(ensured, store_id, section_id, response_key,
                                 Stamp(response, now))
      IN  [storage |-> saved,
           response |-> Response("save_response", 200, "", store_id, section_id,
               IF v = "models"
               THEN [question_id |-> question_id,
                     procedure_index |-> procedure_index,
                     section_score |-> calculate_section_score(saved, store_id, section_id),
                     store_score |-> calculate_store_score(saved, store_id)]
               ELSE [question_id |-> question_id,
                     procedure_index |-> procedure_index])]

\* a loop that stops after its first entry
SaveFirstOnly(storage, store_id, section_id, responses, keys, now) ==
    IF keys = {} THEN storage
    ELSE LET k == CHOOSE k \in keys : TRUE
         IN  StoreResponse(storage, store_id, section_id, k, Stamp(responses[k], now))

RECURSIVE SaveAll(_, _, _, _, _, _)
\* the loop of batch_save_responses over responses.items()
SaveAll(storage, store_id, section_id, responses, keys, now) ==
    IF keys = {} THEN storage
    ELSE LET k == CHOOSE k \in keys : TRUE
         IN  SaveAll(StoreResponse(storage, store_id, section_id, k, Stamp(responses[k], now)),
                     store_id, section_id, responses, keys \ {k}, now)

\* a batch save that creates the store and section before it checks the
\* identifiers
BatchSaveEnsuringFirst(storage, data, now) ==
    LET ensured == IF Truthy(data) /\ FirstMissing(data, BatchRequiredFields, 1) = ""
                   THEN ensure_storage_structure(storage, Str(data.f["store"]),
                                                 Str(data.f["section"]))
                   ELSE storage
    IN  IF ValidationError(data, BatchRequiredFields) # ""
        THEN [storage |-> ensured,
              response |-> Response("batch_save_responses", 400,
                                    ValidationError(data, BatchRequiredFields), "", "", NoBody)]
        ELSE IF ~IsDict(data.f["responses"])
        THEN [storage |-> ensured,
              response |-> Response("batch_save_responses", 500,
                                    "Internal server error", "", "", NoBody)]
        ELSE [storage |-> SaveAll(ensured, Str(data.f["store"]), Str(data.f["section"]),
                                  data.f["responses"].f, DOMAIN data.f["responses"].f, now),
              response |-> Response("batch_save_responses", 200, "",
                                    Str(data.f["store"]), Str(data.f["section"]),
                                    [saved_count |-> Cardinality(DOMAIN data.f["responses"].f)])]

\* batch_save_responses (app.py, routes/assessment.py): a responses value that
\* is not a dict has no items(), the AttributeError reaches handle_errors after
\* ensure_storage_structure has run
BatchSaveResponses(storage, data, now) ==
    IF ValidationError(data, BatchRequiredFields) # ""
    THEN [storage |-> storage,
          response |-> Response("batch_save_responses", 400,
                                ValidationError(data, BatchRequiredFields), "", "", NoBody)]
    ELSE
      LET store_id == Str(data.f["store"])
          section_id == Str(data.f["section"])
          responses == data.f["responses"]
          ensured == ensure_storage_structure(storage, store_id, section_id)
      IN  IF ~IsDict(responses)
          THEN [storage |-> ensured,
                response |-> Response("batch_save_responses", 500,
                                      "Internal server error", "", "", NoBody)]
          ELSE [storage |-> SaveAll(ensured, store_id, section_id, responses.f,
                                    DOMAIN responses.f, now),
                response |-> Response("batch_save_responses", 200, "", store_id, section_id,
                                      [saved_count |-> Cardinality(DOMAIN responses.f)])]

(***************************************************************************)
(* The read handlers: like the write handlers, each gives the store it     *)
(* leaves and its response.                                                *)
(***************************************************************************)
\* responses_storage[store_id][section_id] if both exist, else {}
StoredResponses(storage, store_id, section_id) ==
    IF store_id \in DOMAIN storage /\ section_id \in DOMAIN storage[store_id]
    THEN storage[store_id][section_id]
    ELSE EmptyDict

\* "" when the identifiers of a URL pass the handler's checks
PathError(store, section, check_section) ==
    IF InvalidId(store) THEN "Invalid store ID"
    ELSE IF check_section /\ InvalidId(section) THEN "Invalid section ID"
    ELSE ""

GetResponses(v, storage, store, section) ==
    [storage |-> storage,
     response |->
        IF PathError(store, section, TRUE) # ""
        THEN Response("get_responses", 400, PathError(store, section, TRUE), "", "", NoBody)
        ELSE Response("get_responses", 200, "", store, section,
               IF v = "models"
               THEN [responses |-> StoredResponses(storage, store, section),
                     count |-> Cardinality(DOMAIN StoredResponses(storage, store, section)),
                     section_score |-> calculate_section_score(storage, store, section)]
               ELSE [responses |-> StoredResponses(storage, store, section),
                     count |-> Cardinality(DOMAIN StoredResponses(storage, store, section))])]

GetStoreScore(storage, store) ==
    [storage |-> storage,
     response |->
        IF PathError(store, "", FALSE) # ""
        THEN Response("get_store_score", 400, PathError(store, "", FALSE), "", "", NoBody)
        ELSE Response("get_store_score", 200, "", store, "",
                      [score |-> calculate_store_score(storage, store)])]

\* a read that creates the section it looks up
GetSectionScoreEnsuring(storage, store, section) ==
    [storage |-> IF PathError(store, section, TRUE) # ""
                 THEN storage
                 ELSE ensure_storage_structure(storage, store, section),
     response |->
        IF PathError(store, section, TRUE) # ""
        THEN Response("get_section_score", 400, PathError(store, section, TRUE), "", "", NoBody)
        ELSE Response("get_section_score", 200, "", store, section,
                      [score |-> calculate_section_score(storage, store, section)])]

GetSectionScore(storage, store, section) ==
    [storage |-> storage,
     response |->
        IF PathError(store, section, TRUE) # ""
        THEN Response("get_section_score", 400, PathError(store, section, TRUE), "", "", NoBody)
        ELSE Response("get_section_score", 200, "", store, section,
                      [score |-> calculate_section_score(storage, store, section)])]

\* a refresh that creates the store and section it recomputes
RefreshScoresEnsuring(storage, store, section) ==
    [storage |-> IF PathError(store, section, FALSE) # ""
                 THEN storage
                 ELSE ensure_storage_structure(storage, store, section),
     response |->
        IF PathError(store, section, FALSE) # ""
        THEN Response("refresh_scores", 400, PathError(store, section, FALSE), "", "", NoBody)
        ELSE Response("refresh_scores", 200, "", store, section, NoBody)]

\* refresh_scores of models/assessment.py: the section is not validated
RefreshScores(storage, store, section) ==
    [storage |-> storage,
     response |->
        IF PathError(store, section, FALSE) # ""
        THEN Response("refresh_scores", 400, PathError(store, section, FALSE), "", "", NoBody)
        ELSE IF section = "all"
        THEN Response("refresh_scores", 200, "", store, "",
                      [score |-> calculate_store_score(storage, store)])
        ELSE Response("refresh_scores", 200, "", store, section,
                      [section_score |-> calculate_section_score(storage, store, section),
                       store_score |-> calculate_store_score(storage, store)])]

(***************************************************************************)
(* Request inputs.                                                         *)
(***************************************************************************)
\* utcnow().isoformat()
Timestamps == {"2025-07-01T10:00:00"}

\* (store, section) of the well-formed writes; 1660 arrives as a JSON number
SaveTargets ==
    {<<JStr("42"), JStr("people")>>, <<JStr("42"), JStr("other")>>,
     <<JNum("1660"), JStr("people")>>}
\* (question_id, procedure_index): the last two give the same response key
QuestionProcedures ==
    {<<JStr("q1"), JNum("0")>>, <<JStr("q1-0"), JNum("0")>>, <<JStr("q1"), JStr("0-0")>>}
ResponseValues ==
    {JDict([hasIssues |-> JStr("no"), saved_timestamp |-> JStr("client")]),
     JDict([hasIssues |-> JStr("yes")]),
     JStr("no")}

Restrict(f, D) == [k \in D |-> f[k]]

SaveFields == {SaveRequiredFields[i] : i \in 1..Len(SaveRequiredFields)}
BatchFields == {BatchRequiredFields[i] : i \in 1..Len(BatchRequiredFields)}

\* well-formed save requests
SavePayloads ==
    {JDict([store |-> ss[1], section |-> ss[2], question_id |-> qp[1],
            procedure_index |-> qp[2], response |-> r]) :
        ss \in SaveTargets, qp \in QuestionProcedures, r \in ResponseValues}

\* save requests the validation rejects, one for each of its exits
RejectedSavePayloads ==
    {JDict(EmptyDict),
     JDict([store |-> JStr("42"), section |-> JStr("people"), question_id |-> JStr("q1"),
            procedure_index |-> JNum("0")]),
     JDict([store |-> JStr("undefined"), section |-> JStr("people"),
            question_id |-> JStr("q1"), procedure_index |-> JNum("0"),
            response |-> JStr("no")]),
     JDict([store |-> JStr("42"), section |-> JStr(""), question_id |-> JStr("q1"),
            procedure_index |-> JNum("0"), response |-> JStr("no")])}

ResponseKeys == {ResponseKey(Str(qp[1]), Str(qp[2])) : qp \in QuestionProcedures}

\* the responses mappings of a batch: at most MaxBatch entries
BatchMappings ==
    UNION {[K -> ResponseValues] : K \in {K \in SUBSET ResponseKeys : Cardinality(K) <= MaxBatch}}

BatchPayloads ==
    {JDict([store |-> ss[1], section |-> ss[2], responses |-> JDict(m)]) :
        ss \in SaveTargets, m \in BatchMappings}

\* batch requests that fail: rejected by the validation, or a responses value
\* that is a list
FailingBatchPayloads ==
    {JDict(EmptyDict),
     JDict([store |-> JStr("42"), section |-> JStr("people")]),
     JDict([store |-> JStr(""), section |-> JStr("people"), responses |-> JDict(EmptyDict)]),
     JDict([store |-> JStr("42"), section |-> JStr("undefined"),
            responses |-> JDict(EmptyDict)]),
     JDict([store |-> JStr("42"), section |-> JStr("people"), responses |-> JList])}

\* identifiers the validation is about: empty, the sentinel, null, a valid one
EdgeStoreValues == {JStr(""), JStr("undefined"), JNull, JStr("42")}
EdgeSectionValues == {JStr(""), JStr("undefined"), JStr("people")}

\* save requests with edge identifiers and with any set of fields left out
EdgeSavePayloads ==
    {JDict(Restrict([store |-> st, section |-> se, question_id |-> JStr("q1"),
                     procedure_index |-> JNum("0"),
                     response |-> JDict([hasIssues |-> JStr("no")])], D)) :
        st \in EdgeStoreValues, se \in EdgeSectionValues, D \in SUBSET SaveFields}

\* batch requests with edge identifiers, with any set of fields left out, and
\* with a responses value that is a mapping or a list
EdgeBatchPayloads ==
    {JDict(Restrict([store |-> st, section |-> se, responses |-> r], D)) :
        st \in EdgeStoreValues, se \in EdgeSectionValues,
        r \in {JList, JDict(EmptyDict),
               JDict([k \in {"q1-0"} |-> JDict([hasIssues |-> JStr("yes")])])},
        D \in SUBSET BatchFields}

\* <store> and <section> of a URL (never empty): the written pairs, a section
\* and a store that are never written, and the sentinel in either place
PathStores == {"42", "1660", "undefined"}
Paths ==
    {<<"42", "people">>, <<"42", "other">>, <<"1660", "people">>, <<"1660", "culture">>,
     <<"7", "people">>, <<"undefined", "people">>, <<"42", "undefined">>}
RefreshPaths ==
    {<<"42", "people">>, <<"42", "all">>, <<"1660", "all">>, <<"undefined", "all">>}

WithinBound(storage) == CountStored(storage, DOMAIN storage) <= MaxStored

(***************************************************************************)
(* Requests served one at a time: every handler runs to its response.      *)
(***************************************************************************)
NoResponse == Response("", 0, "", "", "", NoBody)

\* the running module is models/assessment.py
Init ==
    /\ variant = "models"
    /\ responses_storage = EmptyDict
    /\ cache = EmptyDict
    /\ result = NoResponse
    /\ threads = EmptyDict

\* the store and the response of a handler become the state
Serve(out) ==
    /\ out.storage # responses_storage => WithinBound(out.storage)
    /\ responses_storage' = out.storage
    /\ result' = out.response
    /\ UNCHANGED <<variant, cache, threads>>

save_response(data, now) ==
    /\ variant \in {"models", "app"}
    /\ Serve(SaveResponse(variant, responses_storage, data, now))

batch_save_responses(data, now) ==
    /\ variant = "app"
    /\ Serve(BatchSaveResponses(responses_storage, data, now))

get_responses(store, section) ==
    /\ variant \in {"models", "app"}
    /\ Serve(GetResponses(variant, responses_storage, store, section))

get_store_score(store) ==
    /\ variant = "models"
    /\ Serve(GetStoreScore(responses_storage, store))

get_section_score(store, section) ==
    /\ variant = "models"
    /\ Serve(GetSectionScore(responses_storage, store, section))

refresh_scores(store, section) ==
    /\ variant = "models"
    /\ Serve(RefreshScores(responses_storage, store, section))

Next ==
    \/ \E data \in SavePayloads \cup RejectedSavePayloads, now \in Timestamps :
           save_response(data, now)
    \/ \E path \in Paths : get_responses(path[1], path[2])
    \/ \E store \in PathStores : get_store_score(store)
    \/ \E path \in Paths : get_section_score(path[1], path[2])
    \/ \E path \in RefreshPaths : refresh_scores(path[1], path[2])

Spec == Init /\ [][Next]_vars

(***************************************************************************)
(* Request validation: models/assessment.py or app.py serves, one request  *)
(* at a time, requests with edge identifiers and missing fields.           *)
(***************************************************************************)
InitValidation ==
    /\ variant \in {"models", "app"}
    /\ responses_storage = EmptyDict
    /\ cache = EmptyDict
    /\ result = NoResponse
    /\ threads = EmptyDict

NextValidation ==
    \/ \E data \in EdgeSavePayloads, now \in Timestamps : save_response(data, now)
    \/ \E data \in EdgeBatchPayloads, now \in Timestamps : batch_save_responses(data, now)
    \/ \E store \in {"42", "None"}, section \in {"people"} : get_responses(store, section)

SpecValidation == InitValidation /\ [][NextValidation]_vars

(***************************************************************************)
(* Scoring on its own: models/assessment.py holds one of a family of       *)
(* stores and answers score queries.  Every store of the family is one     *)
(* that save_response can build.                                           *)
(***************************************************************************)
\* A section holds at most MaxResponses responses.
MaxResponses == 6

QuestionIds == <<"q1", "q2", "q3", "q4", "q5", "q6", "q7", "q8", "q9">>

ScoringStores == {"42", "1660", "5686"}
ScoringSections == {"availability", "checkout", "fulfillment", "people", "culture", "other"}

\* response values that are not records, or records without a hasIssues text
OddResponseValues ==
    {JDict(EmptyDict), JDict([hasIssues |-> JNull]), JNull, JList}

\* what save_response leaves in the store for a response
StoredValues ==
    {Stamp(r, now) : r \in ResponseValues \cup OddResponseValues, now \in Timestamps}

\* n responses under the keys q1-0 .. qn-0: the first p say hasIssues "no",
\* the others are `other`
SectionWith(n, p, other) ==
    [k \in {ResponseKey(QuestionIds[i], "0") : i \in 1..n} |->
        IF \E i \in 1..p : k = ResponseKey(QuestionIds[i], "0")
        THEN Stamp(JDict([hasIssues |-> JStr("no")]), CHOOSE now \in Timestamps : TRUE)
        ELSE other]

SectionContents ==
    {SectionWith(n, p, other) :
        n \in 1..MaxResponses, p \in 0..MaxResponses, other \in StoredValues}

\* every process-check question of store 42 answered "no"
CompleteStore ==
    [section \in {FixedSections[i] : i \in DOMAIN FixedSections} |->
        SectionWith(TotalQuestions(section, FALSE), TotalQuestions(section, FALSE),
                    JStr("no"))]

\* every question of a section of store 42 answered, p of them "no"
Answered(section, p) ==
    SectionWith(TotalQuestions(section, FALSE), p,
                Stamp(JDict([hasIssues |-> JStr("yes")]), CHOOSE now \in Timestamps : TRUE))

\* store 42 with every question answered, availability, people and culture
\* with any number of "no"
GradedStores ==
    {Put(Put(Put(CompleteStore, "availability", Answered("availability", a)),
             "people", Answered("people", p)),
         "culture", Answered("culture", c)) :
        a \in 0..TotalQuestions("availability", FALSE),
        p \in 0..TotalQuestions("people", FALSE),
        c \in 0..TotalQuestions("culture", FALSE)}

\* a store that holds some of the five sections, each complete
PartialStores ==
    {Restrict(CompleteStore, D) : D \in (SUBSET DOMAIN CompleteStore) \ {{}}}

\* a store with one section, store 42 complete but for one section, store 42
\* graded, and store 5686 with some of the sections
ScoringStorages ==
    {Put(EmptyDict, store, Put(EmptyDict, section, held)) :
        store \in ScoringStores, section \in ScoringSections, held \in SectionContents}
    \cup {Put(EmptyDict, "42", Put(CompleteStore, section, held)) :
        section \in {"people", "culture"}, held \in SectionContents}
    \cup {Put(EmptyDict, "42", held) : held \in GradedStores}
    \cup {Put(EmptyDict, "5686", held) : held \in PartialStores}

InitScoring ==
    /\ variant = "models"
    /\ responses_storage \in ScoringStorages
    /\ cache = EmptyDict
    /\ result = NoResponse
    /\ threads = EmptyDict

NextScoring ==
    \/ \E store \in ScoringStores, section \in ScoringSections :
           get_section_score(store, section)
    \/ \E store \in ScoringStores : get_store_score(store)

SpecScoring == InitScoring /\ [][NextScoring]_vars

(***************************************************************************)
(* Requests served concurrently.  Flask runs threaded=True: each request   *)
(* has a thread of its own, and the threads interleave between the         *)
(* statements of the handlers.  A thread holds the handler's locals.       *)
(***************************************************************************)
\* Number of request threads.
MaxThreads == 2

IdleThread ==
    [pc |-> "idle", op |-> "", store |-> "", section |-> "", data |-> JNull,
     deletes |-> << >>, rv |-> NoResponse]

Threads == 1..MaxThreads

\* bodies of the concurrent save_response requests: two sections of one
\* store, two keys, and a body that is rejected
RacePayloads ==
    {data \in SavePayloads :
        /\ data.f["store"] = JStr("42")
        /\ data.f["question_id"] = JStr("q1")
        /\ IsPositive(data.f["response"])}
    \cup {JDict([store |-> JStr("undefined"), section |-> JStr("people"),
                 question_id |-> JStr("q1"), procedure_index |-> JNum("0"),
                 response |-> JStr("no")])}

\* the response key of a save_response body
KeyOf(data) == ResponseKey(Str(data.f["question_id"]), Str(data.f["procedure_index"]))

\* thread t moves to `pc` with its locals kept
Goto(t, pc) == threads' = [threads EXCEPT ![t].pc = pc]

\* thread t returns rv: the request is over
Return(t, rv) ==
    /\ threads' = [threads EXCEPT ![t].pc = "done", ![t].rv = rv]
    /\ result' = rv

\* models/assessment.py serves, a thread per request, the store is empty
InitRace ==
    /\ variant = "models"
    /\ responses_storage = EmptyDict
    /\ cache = EmptyDict
    /\ result = NoResponse
    /\ threads = [t \in Threads |-> IdleThread]

\* save_response up to the call of ensure_storage_structure
save_validate(t, data) ==
    /\ threads[t].pc = "idle"
    /\ IF ValidationError(data, SaveRequiredFields) # ""
       THEN Return(t, Response("save_response", 400,
                               ValidationError(data, SaveRequiredFields), "", "", NoBody))
       ELSE /\ threads' = [threads EXCEPT ![t] =
                   [IdleThread EXCEPT !.pc = "check_store", !.op = "save_response",
                                      !.store = Str(data.f["store"]),
                                      !.section = Str(data.f["section"]),
                                      !.data = data]]
            /\ UNCHANGED result
    /\ UNCHANGED <<variant, responses_storage, cache>>

\* if store_id not in responses_storage:
ensure_check_store(t) ==
    /\ threads[t].pc = "check_store"
    /\ Goto(t, IF threads[t].store \notin DOMAIN responses_storage
               THEN "create_store" ELSE "check_section")
    /\ UNCHANGED <<variant, responses_storage, cache, result>>

\*     responses_storage[store_id] = {}
ensure_create_store(t) ==
    /\ threads[t].pc = "create_store"
    /\ responses_storage' = Put(responses_storage, threads[t].store, EmptyDict)
    /\ Goto(t, "check_section")
    /\ UNCHANGED <<variant, cache, result>>

\* if section_id not in responses_storage[store_id]:
ensure_check_section(t) ==
    /\ threads[t].pc = "check_section"
    /\ Goto(t, IF threads[t].section \notin DOMAIN responses_storage[threads[t].store]
               THEN "create_section" ELSE "write")
    /\ UNCHANGED <<variant, responses_storage, cache, result>>

\*     responses_storage[store_id][section_id] = {}
ensure_create_section(t) ==
    /\ threads[t].pc = "create_section"
    /\ responses_storage' =
           Put(responses_storage, threads[t].store,
               Put(responses_storage[threads[t].store], threads[t].section, EmptyDict))
    /\ Goto(t, "write")
    /\ UNCHANGED <<variant, cache, result>>

\* responses_storage[store_id][section_id][response_key] = response; a section
\* that is no longer there is a KeyError, answered 500 by the except clause
save_write(t, now) ==
    /\ threads[t].pc = "write"
    /\ IF threads[t].section \in DOMAIN responses_storage[threads[t].store]
       THEN /\ responses_storage' =
                   StoreResponse(responses_storage, threads[t].store, threads[t].section,
                                 KeyOf(threads[t].data),
                                 Stamp(threads[t].data.f["response"], now))
            /\ Goto(t, "respond")
            /\ UNCHANGED result
       ELSE /\ Return(t, Response("save_response", 500,
                                  "Internal server error while saving response",
                                  "", "", NoBody))
            /\ UNCHANGED responses_storage
    /\ UNCHANGED <<variant, cache>>

\* the scores and the 200 response
save_respond(t) ==
    /\ threads[t].pc = "respond"
    /\ Return(t, Response("save_response", 200, "", threads[t].store, threads[t].section,
                 [question_id |-> Str(threads[t].data.f["question_id"]),
                  procedure_index |-> Str(threads[t].data.f["procedure_index"]),
                  section_score |-> calculate_section_score(responses_storage,
                                        threads[t].store, threads[t].section),
                  store_score |-> calculate_store_score(responses_storage, threads[t].store)]))
    /\ UNCHANGED <<variant, responses_storage, cache>>

NextRace ==
    \E t \in Threads :
        \/ \E data \in RacePayloads : save_validate(t, data)
        \/ ensure_check_store(t)
        \/ ensure_create_store(t)
        \/ ensure_check_section(t)
        \/ ensure_create_section(t)
        \/ \E now \in Timestamps : save_write(t, now)
        \/ save_respond(t)

SpecRace == InitRace /\ [][NextRace]_vars

(***************************************************************************)
(* routes/assessment.py: its scoring functions and its cache.  The scores  *)
(* and percentages of this module are floats rounded to one decimal: they  *)
(* are held here in tenths.                                                *)
(***************************************************************************)
routes_calculate_section_score(storage, store_id, section_id) ==
    IF store_id \notin DOMAIN storage \/ section_id \notin DOMAIN storage[store_id]
    THEN [score |-> 0, max_score |-> 10, percentage |-> 0, color |-> "red",
          questions_completed |-> 0, total_questions |-> 5, normalized |-> TRUE]
    ELSE
      LET section_responses == storage[store_id][section_id]
          total_responses == Cardinality(DOMAIN section_responses)
          positive_responses ==
              Cardinality({k \in DOMAIN section_responses : IsPositive(section_responses[k])})
          score == positive_responses * 2
          max_score == IF total_responses > 0 THEN total_responses * 2 ELSE 10
          \* normalized_score = score * (10 / max_score)
          \* percentage = normalized_score / 10 * 100 = 100 * score / max_score
      IN  [score |-> Round(score * 10 * 10, max_score),
           raw_score |-> score,
           max_score |-> 10,
           raw_max_score |-> max_score,
           percentage |-> Round(100 * score * 10, max_score),
           color |-> IF 100 * score >= 80 * max_score THEN "green"
                     ELSE IF 100 * score >= 60 * max_score THEN "yellow"
                     ELSE "red",
           questions_completed |-> total_responses,
           total_questions |-> IF total_responses > 5 THEN total_responses ELSE 5,
           normalized |-> TRUE]

RECURSIVE routes_total_score(_, _, _)
\* total_score after the sections[1..i] of the loop, in tenths
routes_total_score(storage, store_id, i) ==
    IF i = 0 THEN 0
    ELSE routes_total_score(storage, store_id, i - 1)
         + routes_calculate_section_score(storage, store_id, FixedSections[i]).score

routes_calculate_store_score(storage, store_id) ==
    IF store_id \notin DOMAIN storage
    THEN [overall_score |-> 0, overall_max_score |-> 46, overall_percentage |-> 0,
          overall_color |-> "red", sections_completed |-> 0, total_sections |-> 5,
          section_scores |-> EmptyDict, normalized |-> TRUE]
    ELSE
      LET total_score == routes_total_score(storage, store_id, Len(FixedSections))
          \* standard_section_scores: 10 + 10 + 8 + 10 + 8
          total_max_score == 10 + 10 + 8 + 10 + 8
      IN  [overall_score |-> total_score,
           overall_max_score |-> total_max_score,
           \* total_score / total_max_score * 100, in tenths
           overall_percentage |-> Round(total_score * 100, total_max_score),
           overall_color |-> IF total_score * 10 >= 80 * total_max_score THEN "green"
                             ELSE IF total_score * 10 >= 60 * total_max_score THEN "yellow"
                             ELSE "red",
           sections_completed |->
               Cardinality({i \in DOMAIN FixedSections :
                   routes_calculate_section_score(storage, store_id, FixedSections[i])
                       .questions_completed > 0}),
           total_sections |-> Len(FixedSections),
           section_scores |->
               [section \in {FixedSections[i] : i \in DOMAIN FixedSections} |->
                   routes_calculate_section_score(storage, store_id, section)],
           normalized |-> TRUE]

\* the response the body of a cached view function computes
CachedView(op, storage, store, section) ==
    CASE op = "get_responses" -> GetResponses("routes", storage, store, section).response
      [] op = "get_store_score" ->
            IF PathError(store, "", FALSE) # ""
            THEN Response(op, 400, PathError(store, "", FALSE), "", "", NoBody)
            ELSE Response(op, 200, "", store, "",
                          [score |-> routes_calculate_store_score(storage, store)])
      [] op = "get_section_score" ->
            IF PathError(store, section, TRUE) # ""
            THEN Response(op, 400, PathError(store, section, TRUE), "", "", NoBody)
            ELSE Response(op, 200, "", store, section,
                          [score |-> routes_calculate_section_score(storage, store, section)])

\* key_prefix of the cached view functions
CacheKey(op, store, section) ==
    CASE op = "get_responses" -> "responses_" \o store \o "_" \o section
      [] op = "get_store_score" -> "store_score_" \o store
      [] op = "get_section_score" -> "section_score_" \o store \o "_" \o section

\* cache.delete(key)
CacheDelete(c, key) == [k \in DOMAIN c \ {key} |-> c[k]]

\* an invalidation that leaves the cached responses alone
InvalidatedKeysScoresOnly(store_id, section_id) ==
    <<"store_score_" \o store_id,
      "section_score_" \o store_id \o "_" \o section_id>>

\* the keys save_response and batch_save_responses delete, in order
InvalidatedKeys(store_id, section_id) ==
    <<"store_score_" \o store_id,
      "section_score_" \o store_id \o "_" \o section_id,
      "responses_" \o store_id \o "_" \o section_id>>

RECURSIVE SectionKeys(_, _)
\* the deletes of refresh_scores' loop over sections[1..i]
SectionKeys(store_id, i) ==
    IF i = 0 THEN << >>
    ELSE SectionKeys(store_id, i - 1)
         \o <<"section_score_" \o store_id \o "_" \o FixedSections[i],
              "responses_" \o store_id \o "_" \o FixedSections[i]>>

\* the keys refresh_scores deletes, in order
RefreshedKeys(store_id, section) ==
    IF section # "all"
    THEN <<"store_score_" \o store_id,
           "section_score_" \o store_id \o "_" \o section,
           "responses_" \o store_id \o "_" \o section>>
    ELSE <<"store_score_" \o store_id>> \o SectionKeys(store_id, Len(FixedSections))

(***************************************************************************)
(* routes/assessment.py served step by step: the cached view functions     *)
(* (cache.get, the view, cache.set), the writes (the store, then one       *)
(* cache.delete after another, then the response) and the expiry of cache  *)
(* entries.  A thread that has answered is free for the next request.      *)
(***************************************************************************)
\* thread t answers rv and is free again
Answer(t, rv) ==
    /\ threads' = [threads EXCEPT ![t] = IdleThread]
    /\ result' = rv

\* @cache.cached: cache.get(key) finds the response and the view is not called
cached_hit(t, op, store, section) ==
    /\ threads[t].pc = "idle"
    /\ CacheKey(op, store, section) \in DOMAIN cache
    /\ result' = cache[CacheKey(op, store, section)]
    /\ UNCHANGED <<variant, responses_storage, cache, threads>>

\* @cache.cached: cache.get(key) finds nothing
cached_miss(t, op, store, section) ==
    /\ threads[t].pc = "idle"
    /\ CacheKey(op, store, section) \notin DOMAIN cache
    /\ threads' = [threads EXCEPT ![t] =
           [IdleThread EXCEPT !.pc = "view", !.op = op, !.store = store,
                              !.section = section]]
    /\ UNCHANGED <<variant, responses_storage, cache, result>>

\* the view function computes its response from the store
cached_view(t) ==
    /\ threads[t].pc = "view"
    /\ threads' = [threads EXCEPT
           ![t].pc = "cache_set",
           ![t].rv = CachedView(threads[t].op, responses_storage,
                                threads[t].store, threads[t].section)]
    /\ UNCHANGED <<variant, responses_storage, cache, result>>

\* @cache.cached: cache.set(key, rv, timeout=60), then rv is returned
cached_set(t) ==
    /\ threads[t].pc = "cache_set"
    /\ cache' = Put(cache, CacheKey(threads[t].op, threads[t].store, threads[t].section),
                    threads[t].rv)
    /\ Answer(t, threads[t].rv)
    /\ UNCHANGED <<variant, responses_storage>>

\* an entry is dropped when its timeout has passed
cache_expire(key) ==
    /\ key \in DOMAIN cache
    /\ cache' = CacheDelete(cache, key)
    /\ UNCHANGED <<variant, responses_storage, result, threads>>

\* save_response / batch_save_responses up to ensure_storage_structure
write_validate(t, op, data) ==
    /\ threads[t].pc = "idle"
    /\ LET error == ValidationError(data, IF op = "save_response"
                                          THEN SaveRequiredFields ELSE BatchRequiredFields)
       IN  IF error # ""
           THEN Answer(t, Response(op, 400, error, "", "", NoBody))
           ELSE /\ threads' = [threads EXCEPT ![t] =
                       [IdleThread EXCEPT !.pc = "store", !.op = op,
                                          !.store = Str(data.f["store"]),
                                          !.section = Str(data.f["section"]),
                                          !.data = data]]
                /\ UNCHANGED result
    /\ UNCHANGED <<variant, responses_storage, cache>>

\* ensure_storage_structure and the assignments to the store; a batch whose
\* responses have no items() is answered 500 by handle_errors
write_store(t, now) ==
    /\ threads[t].pc = "store"
    /\ LET out == IF threads[t].op = "save_response"
                  THEN SaveResponse(variant, responses_storage, threads[t].data, now)
                  ELSE BatchSaveResponses(responses_storage, threads[t].data, now)
       IN  /\ WithinBound(out.storage)
           /\ responses_storage' = out.storage
           /\ IF out.response.status = 200
              THEN /\ threads' = [threads EXCEPT
                          ![t].pc = "invalidate",
                          ![t].deletes = InvalidatedKeys(threads[t].store, threads[t].section),
                          ![t].rv = out.response]
                   /\ UNCHANGED result
              ELSE Answer(t, out.response)
    /\ UNCHANGED <<variant, cache>>

\* refresh_scores up to its first cache.delete
refresh_validate(t, store, section) ==
    /\ threads[t].pc = "idle"
    /\ IF PathError(store, "", FALSE) # ""
       THEN Answer(t, Response("refresh_scores", 400, PathError(store, "", FALSE),
                               "", "", NoBody))
       ELSE /\ threads' = [threads EXCEPT ![t] =
                   [IdleThread EXCEPT
                       !.pc = "invalidate", !.op = "refresh_scores",
                       !.store = store, !.section = section,
                       !.deletes = RefreshedKeys(store, section),
                       !.rv = Response("refresh_scores", 200, "", store,
                                       IF section = "all" THEN "" ELSE section,
                                       [cache_invalidated |-> TRUE])]]
            /\ UNCHANGED result
    /\ UNCHANGED <<variant, responses_storage, cache>>

\* the next cache.delete of a write or a refresh
cache_delete(t) ==
    /\ threads[t].pc = "invalidate"
    /\ cache' = CacheDelete(cache, Head(threads[t].deletes))
    /\ threads' = [threads EXCEPT
           ![t].deletes = Tail(threads[t].deletes),
           ![t].pc = IF Len(threads[t].deletes) = 1 THEN "respond" ELSE "invalidate"]
    /\ UNCHANGED <<variant, responses_storage, result>>

\* return jsonify(...) of a write or a refresh
write_respond(t) ==
    /\ threads[t].pc = "respond"
    /\ Answer(t, threads[t].rv)
    /\ UNCHANGED <<variant, responses_storage, cache>>

\* One request at a time: a single thread.
SerialSaves ==
    {data \in SavePayloads :
        /\ data.f["store"] = JStr("42")
        /\ data.f["section"] = JStr("people")
        /\ data.f["question_id"] = JStr("q1")
        /\ data.f["procedure_index"] = JNum("0")
        /\ IsDict(data.f["response"])}
    \cup {JDict(EmptyDict)}

SerialBatches ==
    {data \in BatchPayloads :
        /\ data.f["store"] = JStr("42")
        /\ data.f["section"] = JStr("people")
        /\ DOMAIN data.f["responses"].f \in {{"q1-0-0"}, ResponseKeys}
        /\ \A k \in DOMAIN data.f["responses"].f :
               IsPositive(data.f["responses"].f[k])}
    \cup {data \in FailingBatchPayloads : "responses" \in DOMAIN data.f}

SerialReads ==
    {<<"get_responses", "42", "people">>, <<"get_section_score", "42", "people">>,
     <<"get_store_score", "42", "">>, <<"get_responses", "42", "culture">>,
     <<"get_section_score", "undefined", "people">>}

SerialRefreshes == {<<"42", "people">>, <<"42", "all">>, <<"undefined", "all">>}

SerialThreads == {1}

InitCachedSerial ==
    /\ variant = "routes"
    /\ responses_storage = EmptyDict
    /\ cache = EmptyDict
    /\ result = NoResponse
    /\ threads = [t \in SerialThreads |-> IdleThread]

NextCachedSerial ==
    \/ \E t \in SerialThreads :
        \/ \E read \in SerialReads : cached_hit(t, read[1], read[2], read[3])
        \/ \E read \in SerialReads : cached_miss(t, read[1], read[2], read[3])
        \/ cached_view(t)
        \/ cached_set(t)
        \/ \E data \in SerialSaves : write_validate(t, "save_response", data)
        \/ \E data \in SerialBatches : write_validate(t, "batch_save_responses", data)
        \/ \E now \in Timestamps : write_store(t, now)
        \/ \E path \in SerialRefreshes : refresh_validate(t, path[1], path[2])
        \/ cache_delete(t)
        \/ write_respond(t)
    \/ \E read \in SerialReads : cache_expire(CacheKey(read[1], read[2], read[3]))

SpecCachedSerial == InitCachedSerial /\ [][NextCachedSerial]_vars

\* MaxThreads requests at a time, on one key of one section.
CachedSaves ==
    {data \in SerialSaves : data # JDict(EmptyDict) => IsPositive(data.f["response"])}

CachedBatches ==
    {JDict([store |-> JStr("42"), section |-> JStr("people"),
            responses |-> JDict([k \in {"q1-0"} |-> JDict([hasIssues |-> JStr("yes")])])])}

CachedReads ==
    {<<"get_responses", "42", "people">>, <<"get_section_score", "42", "people">>,
     <<"get_store_score", "42", "">>}

CachedRefreshes == {<<"42", "people">>}

InitCached ==
    /\ variant = "routes"
    /\ responses_storage = EmptyDict
    /\ cache = EmptyDict
    /\ result = NoResponse
    /\ threads = [t \in Threads |-> IdleThread]

NextCached ==
    \/ \E t \in Threads :
        \/ \E read \in CachedReads : cached_hit(t, read[1], read[2], read[3])
        \/ \E read \in CachedReads : cached_miss(t, read[1], read[2], read[3])
        \/ cached_view(t)
        \/ cached_set(t)
        \/ \E data \in CachedSaves : write_validate(t, "save_response", data)
        \/ \E data \in CachedBatches : write_validate(t, "batch_save_responses", data)
        \/ \E now \in Timestamps : write_store(t, now)
        \/ \E path \in CachedRefreshes : refresh_validate(t, path[1], path[2])
        \/ cache_delete(t)
        \/ write_respond(t)
    \/ \E read \in CachedReads : cache_expire(CacheKey(read[1], read[2], read[3]))

SpecCached == InitCached /\ [][NextCached]_vars

(***************************************************************************)
(* Every operation, one request at a time: models/assessment.py or app.py  *)
(* serves writes, reads, score queries and refreshes of one store.         *)
(***************************************************************************)
\* get_store_score of app.py
AppGetStoreScore(storage, store) ==
    [storage |-> storage,
     response |-> CachedView("get_store_score", storage, store, "")]

\* get_section_score of app.py
AppGetSectionScore(storage, store, section) ==
    [storage |-> storage,
     response |-> CachedView("get_section_score", storage, store, section)]

\* refresh_scores of app.py: the score is computed and logged, the response
\* names the store and the section (None for "all")
AppRefreshScores(storage, store, section) ==
    [storage |-> storage,
     response |->
        IF PathError(store, section, FALSE) # ""
        THEN Response("refresh_scores", 400, PathError(store, section, FALSE), "", "", NoBody)
        ELSE Response("refresh_scores", 200, "", store,
                      IF section = "all" THEN "" ELSE section, NoBody)]

app_get_store_score(store) ==
    /\ variant = "app"
    /\ Serve(AppGetStoreScore(responses_storage, store))

app_get_section_score(store, section) ==
    /\ variant = "app"
    /\ Serve(AppGetSectionScore(responses_storage, store, section))

app_refresh_scores(store, section) ==
    /\ variant = "app"
    /\ Serve(AppRefreshScores(responses_storage, store, section))

\* writes to two stores, batches to store 42, and one write of each kind that
\* fails
OperationSaves ==
    SavePayloads
    \cup {JDict([store |-> JStr("undefined"), section |-> JStr("people"),
                 question_id |-> JStr("q1"), procedure_index |-> JNum("0"),
                 response |-> JStr("no")])}
OperationBatches ==
    {data \in BatchPayloads : data.f["store"] = JStr("42")}
    \cup {JDict([store |-> JStr("42"), section |-> JStr("people"), responses |-> JList])}

\* reads of the written sections and of a store that is never written
OperationStores == {"42", "7"}
OperationPaths == {<<"42", "people">>, <<"42", "other">>, <<"7", "people">>}
OperationRefreshPaths == {<<"42", "people">>, <<"42", "all">>, <<"7", "all">>}

InitOperations ==
    /\ variant \in {"models", "app"}
    /\ responses_storage = EmptyDict
    /\ cache = EmptyDict
    /\ result = NoResponse
    /\ threads = EmptyDict

NextOperations ==
    \/ \E data \in OperationSaves, now \in Timestamps : save_response(data, now)
    \/ \E data \in OperationBatches, now \in Timestamps : batch_save_responses(data, now)
    \/ \E path \in OperationPaths : get_responses(path[1], path[2])
    \/ \E store \in OperationStores : get_store_score(store)
    \/ \E path \in OperationPaths : get_section_score(path[1], path[2])
    \/ \E path \in OperationRefreshPaths : refresh_scores(path[1], path[2])
    \/ \E store \in OperationStores : app_get_store_score(store)
    \/ \E path \in OperationPaths : app_get_section_score(path[1], path[2])
    \/ \E path \in OperationRefreshPaths : app_refresh_scores(path[1], path[2])

SpecOperations == InitOperations /\ [][NextOperations]_vars

(***************************************************************************)
(* Score queries concurrent with writes.  A query of models/assessment.py  *)
(* runs statement by statement on its own thread while save_response       *)
(* requests are served by other threads; a write is taken as one step.     *)
(* The section dict is read through a reference, so the query sees the     *)
(* store as it is at each of its steps.                                    *)
(***************************************************************************)
\* Number of score queries in flight.
MaxReaders == 1

Readers == 1..MaxReaders

\* the locals of a query; `seen` records the stores that existed since the
\* query was invoked
IdleReader ==
    [pc |-> "idle", op |-> "", store |-> "", section |-> "", i |-> 0,
     section_scores |-> EmptyDict, total_responses |-> 0, positive_responses |-> 0,
     used |-> 0, todo |-> {}, seen |-> {}, rv |-> NoResponse]

\* the keys of a section in the order of the dict: q1-0 is written first
ScoreRaceKeys == <<"q1-0", "q2-0">>

\* the first key of the dict order that the iterator has not yielded
NextKey(todo) ==
    ScoreRaceKeys[CHOOSE i \in 1..Len(ScoreRaceKeys) :
                      /\ ScoreRaceKeys[i] \in todo
                      /\ \A j \in 1..(i - 1) : ScoreRaceKeys[j] \notin todo]

\* the concurrent writes: "no" answers to two questions of two sections
ScoreRacePayloads ==
    {JDict([store |-> JStr("42"), section |-> JStr(section), question_id |-> JStr(q),
            procedure_index |-> JNum("0"),
            response |-> JDict([hasIssues |-> JStr("no")])]) :
        section \in {"people", "culture"}, q \in {"q1", "q2"}}

\* the queries: a written section, one written later, a store never written
\* and the sentinel
ScoreRaceSections == {<<"42", "people">>, <<"42", "culture">>, <<"7", "people">>,
                      <<"undefined", "people">>}
ScoreRaceStores == {"42", "7", "undefined"}

\* store 42 holds one "yes" answer under people
InitScoreRace ==
    /\ variant = "models"
    /\ responses_storage =
           Put(EmptyDict, "42",
               Put(EmptyDict, "people",
                   Put(EmptyDict, "q1-0",
                       Stamp(JDict([hasIssues |-> JStr("yes")]),
                             CHOOSE now \in Timestamps : TRUE))))
    /\ cache = EmptyDict
    /\ result = NoResponse
    /\ threads = [t \in Readers |-> IdleReader]

\* get_section_score / get_store_score up to the call of the scoring function
score_begin(t, op, store, section) ==
    /\ threads[t].pc = "idle"
    /\ IF PathError(store, section, op = "get_section_score") # ""
       THEN Return(t, Response(op, 400, PathError(store, section, op = "get_section_score"),
                               "", "", NoBody))
       ELSE /\ threads' = [threads EXCEPT ![t] =
                   [IdleReader EXCEPT
                       !.pc = IF op = "get_store_score" THEN "check_store" ELSE "check_section",
                       !.op = op, !.store = store, !.section = section,
                       !.seen = {responses_storage}]]
            /\ UNCHANGED result
    /\ UNCHANGED <<variant, responses_storage, cache>>

\* calculate_store_score: if store_id not in responses_storage: return {...};
\* else the loop starts with the first section
score_check_store(t) ==
    /\ threads[t].pc = "check_store"
    /\ IF threads[t].store \notin DOMAIN responses_storage
       THEN Return(t, Response("get_store_score", 200, "", threads[t].store, "",
                               [score |-> ZeroStoreScore]))
       ELSE /\ threads' = [threads EXCEPT ![t].pc = "check_section", ![t].i = 1,
                                          ![t].section = FixedSections[1]]
            /\ UNCHANGED result
    /\ UNCHANGED <<variant, responses_storage, cache>>

\* calculate_section_score returns `score` to its caller: the route answers,
\* or the loop of calculate_store_score goes on to its next section and,
\* after the last one, to the totals
Deliver(t, score) ==
    IF threads[t].op = "get_section_score"
    THEN Return(t, Response("get_section_score", 200, "", threads[t].store,
                            threads[t].section, [score |-> score]))
    ELSE LET section_scores == Put(threads[t].section_scores, threads[t].section, score)
         IN  IF threads[t].i = Len(FixedSections)
             THEN Return(t, Response("get_store_score", 200, "", threads[t].store, "",
                                     [score |-> StoreScoreFromSections(section_scores)]))
             ELSE /\ threads' = [threads EXCEPT
                         ![t].pc = "check_section",
                         ![t].i = threads[t].i + 1,
                         ![t].section = FixedSections[threads[t].i + 1],
                         ![t].section_scores = section_scores]
                  /\ UNCHANGED result

\* if store_id not in responses_storage or section_id not in
\* responses_storage[store_id]: return {...}
score_check_section(t) ==
    /\ threads[t].pc = "check_section"
    /\ IF \/ threads[t].store \notin DOMAIN responses_storage
          \/ threads[t].section \notin DOMAIN responses_storage[threads[t].store]
       THEN Deliver(t, ZeroSectionScore(threads[t].section))
       ELSE /\ Goto(t, "len")
            /\ UNCHANGED result
    /\ UNCHANGED <<variant, responses_storage, cache>>

\* total_responses = len(section_responses)
score_len(t) ==
    /\ threads[t].pc = "len"
    /\ threads' = [threads EXCEPT
           ![t].pc = "iter",
           ![t].total_responses =
               Cardinality(DOMAIN responses_storage[threads[t].store][threads[t].section])]
    /\ UNCHANGED <<variant, responses_storage, cache, result>>

\* the generator over section_responses.values() is created: the iterator
\* notes the size of the dict
score_iter(t) ==
    /\ threads[t].pc = "iter"
    /\ threads' = [threads EXCEPT
           ![t].pc = "next",
           ![t].used = Cardinality(DOMAIN responses_storage[threads[t].store][threads[t].section]),
           ![t].todo = DOMAIN responses_storage[threads[t].store][threads[t].section],
           ![t].positive_responses = 0]
    /\ UNCHANGED <<variant, responses_storage, cache, result>>

\* sum() asks the iterator for its next value: a dict whose size has changed
\* raises RuntimeError, which the except clause answers with the fallback
\* record; an exhausted iterator ends the sum and the score is computed
score_next(t) ==
    /\ threads[t].pc = "next"
    /\ LET section_responses == responses_storage[threads[t].store][threads[t].section]
       IN  IF Cardinality(DOMAIN section_responses) # threads[t].used
           THEN Deliver(t, ZeroSectionScore(threads[t].section))
           ELSE IF threads[t].todo = {}
           THEN Deliver(t, SectionScoreFromCounts(threads[t].store, threads[t].section,
                                                  threads[t].total_responses,
                                                  threads[t].positive_responses))
           ELSE /\ threads' = [threads EXCEPT
                       ![t].todo = threads[t].todo \ {NextKey(threads[t].todo)},
                       ![t].positive_responses =
                           IF IsPositive(section_responses[NextKey(threads[t].todo)])
                           THEN threads[t].positive_responses + 1
                           ELSE threads[t].positive_responses]
                /\ UNCHANGED result
    /\ UNCHANGED <<variant, responses_storage, cache>>

\* a save_response request served by another thread between two steps of the
\* queries
concurrent_save(data, now) ==
    /\ responses_storage' = SaveResponse(variant, responses_storage, data, now).storage
    /\ responses_storage' # responses_storage
    /\ result' = SaveResponse(variant, responses_storage, data, now).response
    /\ threads' = [t \in Readers |->
                      IF threads[t].pc \in {"idle", "done"}
                      THEN threads[t]
                      ELSE [threads[t] EXCEPT !.seen = @ \cup {responses_storage'}]]
    /\ UNCHANGED <<variant, cache>>

NextScoreRace ==
    \/ \E t \in Readers, path \in ScoreRaceSections :
           score_begin(t, "get_section_score", path[1], path[2])
    \/ \E t \in Readers, store \in ScoreRaceStores :
           score_begin(t, "get_store_score", store, "")
    \/ \E t \in Readers : score_check_store(t)
    \/ \E t \in Readers : score_check_section(t)
    \/ \E t \in Readers : score_len(t)
    \/ \E t \in Readers : score_iter(t)
    \/ \E t \in Readers : score_next(t)
    \/ \E data \in ScoreRacePayloads, now \in Timestamps : concurrent_save(data, now)

SpecScoreRace == InitScoreRace /\ [][NextScoreRace]_vars

(***************************************************************************)
(* Answers accumulating in one section: models/assessment.py serves        *)
(* save_response requests that answer the questions of one section of one  *)
(* store, "no" or "yes", in any order and any number of times, and score   *)
(* queries for it.                                                         *)
(***************************************************************************)
AnsweredStores == {"42", "1660"}
AnsweredSections == {"people", "culture", "other"}
MaxAnswered == 5

\* an answer to one of the first MaxAnswered questions
AnswerPayloads ==
    {JDict([store |-> JStr(store), section |-> JStr(section),
            question_id |-> JStr(QuestionIds[i]), procedure_index |-> JNum("0"),
            response |-> JDict([hasIssues |-> JStr(answer)])]) :
        store \in AnsweredStores, section \in AnsweredSections,
        i \in 1..MaxAnswered, answer \in {"no", "yes"}}

\* the request goes to the section that is being answered: any section while
\* the store is empty, the one that holds responses afterwards
AnswersHeldSection(data) ==
    \/ responses_storage = EmptyDict
    \/ /\ Str(data.f["store"]) \in DOMAIN responses_storage
       /\ Str(data.f["section"]) \in DOMAIN responses_storage[Str(data.f["store"])]

InitAnswers ==
    /\ variant = "models"
    /\ responses_storage = EmptyDict
    /\ cache = EmptyDict
    /\ result = NoResponse
    /\ threads = EmptyDict

\* save_response of an answer
answer_question(data, now) ==
    /\ variant = "models"
    /\ AnswersHeldSection(data)
    /\ responses_storage' = SaveResponse(variant, responses_storage, data, now).storage
    /\ result' = SaveResponse(variant, responses_storage, data, now).response
    /\ UNCHANGED <<variant, cache, threads>>

NextAnswers ==
    \/ \E data \in AnswerPayloads, now \in Timestamps : answer_question(data, now)
    \/ \E store \in AnsweredStores, section \in AnsweredSections :
           get_section_score(store, section)
    \/ \E store \in AnsweredStores : get_store_score(store)

SpecAnswers == InitAnswers /\ [][NextAnswers]_vars

(***************************************************************************)
(* Properties of the sequential handlers.                                  *)
(***************************************************************************)
\* what getResponses(store, section) returns in a given store
ReadResponses(v, storage, store, section) ==
    GetResponses(v, storage, store, section).response.body.responses

\* resp.get('hasIssues')
HasIssuesOf(resp) == IF "hasIssues" \in DOMAIN resp.f THEN resp.f["hasIssues"] ELSE JNull

\* read holds a record at key k with the hasIssues value of sent and a
\* non-empty saved_timestamp
HoldsRecord(read, k, sent) ==
    /\ k \in DOMAIN read
    /\ IsDict(read[k])
    /\ HasIssuesOf(read[k]) = HasIssuesOf(sent)
    /\ "saved_timestamp" \in DOMAIN read[k].f
    /\ read[k].f["saved_timestamp"].t = "str"
    /\ read[k].f["saved_timestamp"].s # ""

\* the text of a scalar identifier as the client sent it
TextOf(v) == v.s

\* this step is the successful save_response of `data`
SavedByStep(data) ==
    /\ result'.op = "save_response"
    /\ result'.status = 200
    /\ result'.store = TextOf(data.f["store"])
    /\ result'.section = TextOf(data.f["section"])
    /\ \E now \in Timestamps : save_response(data, now)

\* this step is a successful save_response to the key k of (store, section)
WritesKey(store, section, k) ==
    /\ result'.op = "save_response"
    /\ result'.status = 200
    /\ result'.store = store
    /\ result'.section = section
    /\ result'.body.question_id \o "-" \o result'.body.procedure_index = k

\* right after a successful save of a record, getResponses holds it under
\* "{questionId}-{procedureIndex}"
C1_Written ==
    result'.op = "save_response" =>
        \A data \in SavePayloads :
            (IsDict(data.f["response"]) /\ SavedByStep(data)) =>
                HoldsRecord(ReadResponses(variant', responses_storage',
                                          TextOf(data.f["store"]), TextOf(data.f["section"])),
                            TextOf(data.f["question_id"]) \o "-"
                                \o TextOf(data.f["procedure_index"]),
                            data.f["response"])

\* a record that getResponses holds is still held, with the same hasIssues
\* value, after every step that is not a write to its key
C1_Kept ==
    \A store \in DOMAIN responses_storage :
        \A section \in DOMAIN responses_storage[store] :
            LET read == ReadResponses(variant, responses_storage, store, section)
            IN  \A k \in DOMAIN read :
                    (IsDict(read[k]) /\ ~WritesKey(store, section, k)) =>
                        HoldsRecord(ReadResponses(variant', responses_storage', store, section),
                                    k, read[k])

\* C1: write-then-read. After a successful saveResponse of a record response,
\* every later getResponses(store, section) contains the key
\* "{questionId}-{procedureIndex}" with that response's hasIssues value and a
\* non-empty saved_timestamp, until that key is written again.
C1_WriteThenRead == [][C1_Written /\ C1_Kept]_vars

\* a getResponses that returns two stamped records, one of them positive
C1_Witness ==
    /\ result.op = "get_responses"
    /\ result.status = 200
    /\ Cardinality(DOMAIN result.body.responses) = 2
    /\ \A k \in DOMAIN result.body.responses :
           /\ IsDict(result.body.responses[k])
           /\ result.body.responses[k].f["saved_timestamp"].s \in Timestamps
    /\ \E k \in DOMAIN result.body.responses : IsPositive(result.body.responses[k])

\* store identifiers the score properties are asked about: the written ones
\* and one that is never written
ProbeStores == {"42", "1660", "7"}
ProbeSections == {"people", "other", "culture"}

\* no response is stored under the store
HasNoResponses(storage, store) ==
    \/ store \notin DOMAIN storage
    \/ \A section \in DOMAIN storage[store] : DOMAIN storage[store][section] = {}

StoreScoreOf(storage, store) == GetStoreScore(storage, store).response.body.score

\* C8: for every store with no stored responses getStoreScore returns
\* overall_score 0, overall_max_score 46, overall_color "red" and
\* sections_completed 0.
C8_EmptyStoreScore ==
    \A store \in ProbeStores :
        HasNoResponses(responses_storage, store) =>
            /\ StoreScoreOf(responses_storage, store).overall_score = 0
            /\ StoreScoreOf(responses_storage, store).overall_max_score = 46
            /\ StoreScoreOf(responses_storage, store).overall_color = "red"
            /\ StoreScoreOf(responses_storage, store).sections_completed = 0

\* getStoreScore has answered for a store without responses while another
\* store holds some
C8_Witness ==
    /\ result.op = "get_store_score"
    /\ result.status = 200
    /\ HasNoResponses(responses_storage, result.store)
    /\ responses_storage # EmptyDict
    /\ result.body.score.overall_max_score = 46

\* C9: after any sequence of saveResponse operations, on any stores and
\* sections, getStoreScore returns overall_max_score 46 for every store.
C9_MaxScoreIs46 ==
    \A store \in ProbeStores :
        StoreScoreOf(responses_storage, store).overall_max_score = 46

\* getStoreScore has answered for a store that holds responses in a fixed
\* section and in a section outside the five
C9_Witness ==
    /\ result.op = "get_store_score"
    /\ result.status = 200
    /\ result.store \in DOMAIN responses_storage
    /\ {"people", "other"} \subseteq DOMAIN responses_storage[result.store]
    /\ result.body.score.sections_completed = 1

\* C10: getSectionScore is idempotent. Once it has answered, the same call
\* made again before any write returns the identical score record: the first
\* call leaves nothing behind that the second observes.
C10_Idempotent ==
    [][(result'.op = "get_section_score" /\ result'.status = 200) =>
           GetSectionScore(responses_storage', result'.store, result'.section).response
               = result']_vars

\* getSectionScore has answered for a section that holds responses
C10_Witness ==
    /\ result.op = "get_section_score"
    /\ result.status = 200
    /\ result.body.score.questions_completed = 2
    /\ result.body.score.score > 0

(***************************************************************************)
(* Properties of the request validation.                                   *)
(***************************************************************************)
\* the identifier values the validation must reject
RejectedIdValues == {JStr(""), JStr("undefined")}

HasBadId(data) ==
    data.f["store"] \in RejectedIdValues \/ data.f["section"] \in RejectedIdValues

\* the response is the InvalidIdentifier error exactly when an identifier is
\* empty or the sentinel, and a success otherwise
IdsDecide(data, response) ==
    IF HasBadId(data)
    THEN /\ response.status = 400
         /\ response.error \in {"Invalid store ID", "Invalid section ID"}
    ELSE response.status = 200

\* C5: saveResponse and saveResponsesBatch fail with InvalidIdentifier (400
\* 'Invalid store ID' / 'Invalid section ID') whenever the store or section
\* identifier is, after string coercion, empty or "undefined", and succeed for
\* every other identifier. Stated of requests that carry every required field
\* (and, for a batch, a mapping of responses).
C5_IdentifierRejection ==
    \A now \in Timestamps :
        /\ \A data \in EdgeSavePayloads :
               SaveFields \subseteq DOMAIN data.f =>
                   IdsDecide(data, SaveResponse(variant, responses_storage, data, now).response)
        /\ variant = "app" =>
               \A data \in EdgeBatchPayloads :
                   (BatchFields \subseteq DOMAIN data.f /\ IsDict(data.f["responses"])) =>
                       IdsDecide(data, BatchSaveResponses(responses_storage, data, now).response)

\* a batch save has been rejected for its section identifier after a store
\* named by a null identifier was accepted
C5_Witness ==
    /\ result.op = "batch_save_responses"
    /\ result.status = 400
    /\ result.error = "Invalid section ID"
    /\ "None" \in DOMAIN responses_storage

\* the errors that name a missing field
MissingFieldErrors == {"Missing required field: " \o f : f \in SaveFields}

\* C6: saveResponse fails with MissingField whenever any of the five required
\* inputs is absent from the payload, for every payload including the empty
\* one, before the identifiers are looked at.
C6_MissingFieldAlways ==
    [][\A data \in EdgeSavePayloads, now \in Timestamps :
           (~(SaveFields \subseteq DOMAIN data.f) /\ save_response(data, now)) =>
               /\ result'.status = 400
               /\ result'.error \in MissingFieldErrors]_vars

\* C7: a saveResponse or saveResponsesBatch rejected with MissingField or
\* InvalidIdentifier leaves the Response Store exactly as it was.
C7_RejectionKeepsStore ==
    [][(result'.op \in {"save_response", "batch_save_responses"} /\ result'.status = 400) =>
           responses_storage' = responses_storage]_vars

\* a batch save has been rejected while the store holds a response
C7_Witness ==
    /\ result.op = "batch_save_responses"
    /\ result.status = 400
    /\ result.error \in {"Invalid store ID", "Missing required field: responses"}
    /\ ~HasNoResponses(responses_storage, "42")

(***************************************************************************)
(* Properties of the concurrent requests.                                  *)
(***************************************************************************)
\* thread t has been answered 200 for its save_response
Acknowledged(t) ==
    /\ threads[t].pc = "done"
    /\ threads[t].op = "save_response"
    /\ threads[t].rv.status = 200

\* the store holds a response under the key thread t wrote
Holds(t) ==
    /\ threads[t].store \in DOMAIN responses_storage
    /\ threads[t].section \in DOMAIN responses_storage[threads[t].store]
    /\ KeyOf(threads[t].data)
           \in DOMAIN responses_storage[threads[t].store][threads[t].section]

\* C4: no lost updates. When two saveResponse calls for the same, previously
\* unseen store with different sub-keys or different sections have both been
\* acknowledged, both responses are in the Response Store, whatever the
\* interleaving of the steps of ensure_storage_structure and the write.
C4_NoLostUpdate ==
    \A t \in DOMAIN threads, u \in DOMAIN threads :
        (/\ t # u
         /\ Acknowledged(t)
         /\ Acknowledged(u)
         /\ threads[t].store = threads[u].store
         /\ (threads[t].section # threads[u].section
             \/ KeyOf(threads[t].data) # KeyOf(threads[u].data)))
        => (Holds(t) /\ Holds(u))

\* no save or batch save is between its validation and its response
NoWriteInFlight ==
    \A u \in DOMAIN threads :
        threads[u].op \notin {"save_response", "batch_save_responses"}

\* C2: in the cached variant, for every interleaving of the handlers, once a
\* write on (S, X) has been acknowledged no later getSectionScore(S, X),
\* getStoreScore(S) or getResponses(S, X) returns a result computed from store
\* contents that predate the write. Stated of the reads served from the cache
\* while no write is in flight: every acknowledged write is then in the store,
\* and the response must be the one the view computes from it.
C2_NoStaleRead ==
    [][\A t \in DOMAIN threads, read \in CachedReads :
           (NoWriteInFlight /\ cached_hit(t, read[1], read[2], read[3])) =>
               result' = CachedView(read[1], responses_storage, read[2], read[3])]_vars

\* the responses thread t is writing are in the store
Written(t) ==
    /\ threads[t].store \in DOMAIN responses_storage
    /\ threads[t].section \in DOMAIN responses_storage[threads[t].store]
    /\ LET held == responses_storage[threads[t].store][threads[t].section]
       IN  IF threads[t].op = "save_response"
           THEN KeyOf(threads[t].data) \in DOMAIN held
           ELSE DOMAIN threads[t].data.f["responses"].f \subseteq DOMAIN held

\* C3: in the cached variant every successful saveResponse and batch save on
\* (S, X) deletes the cache entries store_score_S, section_score_S_X and
\* responses_S_X after the Response Store has been updated and before the
\* request is acknowledged: with no concurrent request, a write that is
\* deleting holds its responses in the store, and a write about to be
\* acknowledged finds none of the three entries in the cache.
C3_InvalidatedBeforeAck ==
    \A t \in DOMAIN threads :
        threads[t].op \in {"save_response", "batch_save_responses"} =>
            /\ threads[t].pc \in {"invalidate", "respond"} => Written(t)
            /\ threads[t].pc = "respond" =>
                   {"store_score_" \o threads[t].store,
                    "section_score_" \o threads[t].store \o "_" \o threads[t].section,
                    "responses_" \o threads[t].store \o "_" \o threads[t].section}
                       \cap DOMAIN cache = {}

\* a batch save is about to be acknowledged; the responses of another section
\* are still cached
C3_Witness ==
    \E t \in DOMAIN threads :
        /\ threads[t].op = "batch_save_responses"
        /\ threads[t].pc = "respond"
        /\ threads[t].rv.status = 200
        /\ threads[t].rv.body.saved_count = 2
        /\ DOMAIN cache = {"responses_42_culture"}

(***************************************************************************)
(* Properties of the scoring.                                              *)
(***************************************************************************)
\* the score record getSectionScore returns
SectionScoreOf(storage, store, section) ==
    GetSectionScore(storage, store, section).response.body.score

\* (store, section) holds at least one response
HasResponses(storage, store, section) ==
    /\ store \in DOMAIN storage
    /\ section \in DOMAIN storage[store]
    /\ DOMAIN storage[store][section] # {}

\* number of stored responses that are records with hasIssues == "no"
CountNo(held) ==
    Cardinality({k \in DOMAIN held : IsDict(held[k]) /\ HasIssuesOf(held[k]) = JStr("no")})

\* q is an integer nearest to n / d
IsRounded(q, n, d) == 2 * q * d - 2 * n <= d /\ 2 * n - 2 * q * d <= d

\* C11: for a (store, section) with at least one stored response
\* getSectionScore returns raw_score = 2 x the number of stored responses with
\* hasIssues == "no", raw_max_score = 2 x total_questions, score = raw_score x
\* standard_max / raw_max_score rounded and percentage = score / standard_max
\* x 100 rounded; availability without foundation questions and 4 stored
\* responses all "no" gives 8, 8, 10, 100, green.
C11_SectionScoreFormula ==
    \A store \in ScoringStores, section \in ScoringSections :
        HasResponses(responses_storage, store, section) =>
            LET s == SectionScoreOf(responses_storage, store, section)
                held == responses_storage[store][section]
            IN  /\ s.raw_score = 2 * CountNo(held)
                /\ s.raw_max_score = 2 * s.total_questions
                /\ IsRounded(s.score, s.raw_score * s.max_score, s.raw_max_score)
                /\ IsRounded(s.percentage, s.score * 100, s.max_score)
                /\ (/\ section = "availability"
                    /\ store = "42"
                    /\ Cardinality(DOMAIN held) = 4
                    /\ CountNo(held) = 4)
                   => (/\ s.raw_score = 8
                       /\ s.raw_max_score = 8
                       /\ s.score = 10
                       /\ s.percentage = 100
                       /\ s.color = "green")

\* getSectionScore has answered for availability of store 42 holding four
\* responses, all "no"
C11_Witness ==
    /\ result.op = "get_section_score"
    /\ result.store = "42"
    /\ result.section = "availability"
    /\ result.status = 200
    /\ result.body.score.questions_completed = 4
    /\ CountNo(StoredResponses(responses_storage, "42", "availability")) = 4
    /\ result.body.score.score = 10

\* the (store, section) pairs of the static store-to-sections table
FoundationPairs ==
    {<<"1660", "people">>, <<"2297", "fulfillment">>, <<"3523", "fulfillment">>,
     <<"2951", "people">>, <<"5686", "availability">>, <<"5686", "fulfillment">>,
     <<"5686", "checkout">>}

\* the expected number of questions of a section, with and without the
\* foundation questions
ExpectedQuestions(section, with_foundation) ==
    IF with_foundation
    THEN [availability |-> 7, checkout |-> 8, fulfillment |-> 7, people |-> 8][section]
    ELSE [availability |-> 4, checkout |-> 5, fulfillment |-> 4, people |-> 5,
          culture |-> 4][section]

\* C12: the with-foundation total_questions (availability 7, checkout 8,
\* fulfillment 7, people 8) is used for scoring exactly when the (store,
\* section) pair is listed in the static table, and the base value (4, 5, 4,
\* 5, culture 4) otherwise; store 1660, section people with 4 stored responses
\* all "no" scores 5 of 10, percentage 50, red, and store 1660, section
\* availability uses the base total of 4.
C12_FoundationTotals ==
    \A store \in ScoringStores, section \in ScoringSections \ {"other"} :
        HasResponses(responses_storage, store, section) =>
            LET s == SectionScoreOf(responses_storage, store, section)
                held == responses_storage[store][section]
            IN  /\ s.total_questions =
                       ExpectedQuestions(section, <<store, section>> \in FoundationPairs)
                /\ s.raw_max_score = 2 * s.total_questions
                /\ (/\ store = "1660"
                    /\ section = "people"
                    /\ Cardinality(DOMAIN held) = 4
                    /\ CountNo(held) = 4)
                   => (s.score = 5 /\ s.max_score = 10 /\ s.percentage = 50
                       /\ s.color = "red")
                /\ (store = "1660" /\ section = "availability") => s.total_questions = 4

\* getSectionScore has answered for people of store 1660 holding four
\* responses, all "no"
C12_Witness ==
    /\ result.op = "get_section_score"
    /\ result.store = "1660"
    /\ result.section = "people"
    /\ result.status = 200
    /\ result.body.score.questions_completed = 4
    /\ result.body.score.raw_score = 8
    /\ result.body.score.total_questions = 8

\* the color goes with the percentage: green from 80, yellow from 60 up to
\* 79, red below 60
InBand(percentage, color) ==
    /\ color \in {"green", "yellow", "red"}
    /\ color = "green" <=> percentage >= 80
    /\ color = "yellow" <=> (60 <= percentage /\ percentage < 80)
    /\ color = "red" <=> percentage < 60

\* C13: in every section score and every store score the color is a function
\* of the reported percentage alone: green iff percentage >= 80, yellow iff
\* 60 <= percentage < 80, red iff percentage < 60.
C13_ColorBands ==
    \A store \in ScoringStores :
        LET t == StoreScoreOf(responses_storage, store)
        IN  /\ InBand(t.overall_percentage, t.overall_color)
            /\ \A section \in DOMAIN t.section_scores :
                   InBand(t.section_scores[section].percentage,
                          t.section_scores[section].color)
            /\ \A section \in ScoringSections :
                   LET s == SectionScoreOf(responses_storage, store, section)
                   IN  InBand(s.percentage, s.color)

\* getStoreScore has answered with an overall percentage of exactly 80,
\* green, over a people section at exactly 60, yellow, and an availability
\* section at 50, red
C13_Witness ==
    /\ result.op = "get_store_score"
    /\ result.status = 200
    /\ result.body.score.overall_percentage = 80
    /\ result.body.score.overall_color = "green"
    /\ result.body.score.section_scores["people"].percentage = 60
    /\ result.body.score.section_scores["people"].color = "yellow"
    /\ result.body.score.section_scores["availability"].percentage = 50
    /\ result.body.score.section_scores["availability"].color = "red"

\* this step is the successful save_response of `data` at time `now`
SavedAt(data, now) ==
    /\ result'.op = "save_response"
    /\ result'.status = 200
    /\ result'.body.question_id = TextOf(data.f["question_id"])
    /\ result'.body.procedure_index = TextOf(data.f["procedure_index"])
    /\ result'.store = TextOf(data.f["store"])
    /\ result'.section = TextOf(data.f["section"])
    /\ save_response(data, now)

\* right after a successful save, getResponses holds at the written key
\* exactly the value written, whatever the key held before
C14_Written ==
    result'.op = "save_response" =>
        \A data \in SavePayloads, now \in Timestamps :
            SavedAt(data, now) =>
                LET read == ReadResponses(variant', responses_storage',
                                          TextOf(data.f["store"]), TextOf(data.f["section"]))
                    k == TextOf(data.f["question_id"]) \o "-"
                             \o TextOf(data.f["procedure_index"])
                IN  /\ k \in DOMAIN read
                    /\ read[k] = (IF IsDict(data.f["response"])
                                  THEN JDict([j \in DOMAIN data.f["response"].f
                                                    \cup {"saved_timestamp"} |->
                                                 IF j = "saved_timestamp" THEN JStr(now)
                                                 ELSE data.f["response"].f[j]])
                                  ELSE data.f["response"])

\* what getResponses holds at a key stays exactly the same over every step
\* that is not a write to that key
C14_Retained ==
    \A store \in DOMAIN responses_storage :
        \A section \in DOMAIN responses_storage[store] :
            LET read == ReadResponses(variant, responses_storage, store, section)
                after == ReadResponses(variant', responses_storage', store, section)
            IN  \A k \in DOMAIN read :
                    ~WritesKey(store, section, k) => (k \in DOMAIN after /\ after[k] = read[k])

\* C14: last-write-wins. After any sequence of successful writes the response
\* held at a key (store, section, sub-key) is exactly the value of the most
\* recent write to that key, and no earlier value of that key is retrievable
\* by getResponses.
C14_LastWriteWins == [][C14_Written /\ C14_Retained]_vars

\* a successful save_response has answered, and the key it wrote holds the
\* string it was sent, beside another key of the section
C14_Witness ==
    /\ result.op = "save_response"
    /\ result.status = 200
    /\ LET held == responses_storage[result.store][result.section]
           k == result.body.question_id \o "-" \o result.body.procedure_index
       IN  /\ Cardinality(DOMAIN held) = 2
           /\ held[k] = JStr("no")
           /\ \E j \in DOMAIN held \ {k} : IsDict(held[j])

(***************************************************************************)
(* Properties of the stored keys.                                          *)
(***************************************************************************)
\* the (store, section, sub-key) keys present in the store
KeysOf(storage) ==
    UNION {UNION {{<<store, section, k>> : k \in DOMAIN storage[store][section]} :
                  section \in DOMAIN storage[store]} :
           store \in DOMAIN storage}

\* C15: no operation ever removes a key: across every step of every sequence
\* of operations (saveResponse, batch save, reads, score queries,
\* refreshScores) the set of (store, section, sub-key) keys present in the
\* store never shrinks.
C15_KeysNeverRemoved == [][KeysOf(responses_storage) \subseteq KeysOf(responses_storage')]_vars

\* app.py has answered a batch save of one response into a section that
\* holds two keys: the other key was there before the batch
C15_Witness ==
    /\ variant = "app"
    /\ result.op = "batch_save_responses"
    /\ result.status = 200
    /\ result.body.saved_count = 1
    /\ Cardinality(KeysOf(responses_storage)) = 2
    /\ Cardinality(DOMAIN responses_storage[result.store][result.section]) = 2

\* C16: in every reachable state every response held in the store carries a
\* saved_timestamp assigned by the store at write time, for every response
\* value a successful write accepts; a client-supplied saved_timestamp never
\* survives the write.
C16_EveryResponseStamped ==
    \A key \in KeysOf(responses_storage) :
        LET held == responses_storage[key[1]][key[2]][key[3]]
        IN  /\ IsDict(held)
            /\ "saved_timestamp" \in DOMAIN held.f
            /\ held.f["saved_timestamp"] \in {JStr(now) : now \in Timestamps}

\* the response is that of a successful save_response
IsSaved(rv) == rv.op = "save_response" /\ rv.status = 200

\* the sub-key a successful save_response wrote
SavedKey(rv) == rv.body.question_id \o "-" \o rv.body.procedure_index

\* this step is a successful save that follows a successful save to the same
\* store and section with another (question_id, procedure_index) pair
SavesAnotherPair ==
    /\ IsSaved(result)
    /\ IsSaved(result')
    /\ result'.store = result.store
    /\ result'.section = result.section
    /\ <<result'.body.question_id, result'.body.procedure_index>>
           # <<result.body.question_id, result.body.procedure_index>>

\* C17: a response is identified by the composite (store_id, section_id,
\* question_id, procedure_index): two successful saveResponse calls in the
\* same store and section whose (question_id, procedure_index) pairs differ
\* never overwrite one another, and both responses are retrievable
\* afterwards.
C17_DistinctPairsKept ==
    [][SavesAnotherPair =>
          LET before == ReadResponses(variant, responses_storage, result.store, result.section)
              after == ReadResponses(variant', responses_storage', result.store, result.section)
          IN  /\ SavedKey(result') # SavedKey(result)
              /\ SavedKey(result) \in DOMAIN after
              /\ after[SavedKey(result)] = before[SavedKey(result)]]_vars

\* C18: in every reachable state, for every (store, section), the section
\* score satisfies 0 <= score <= max_score and 0 <= percentage <= 100,
\* whatever number of responses has been stored under that section.
C18_ScoreWithinRange ==
    \A store \in ScoringStores, section \in ScoringSections :
        LET s == SectionScoreOf(responses_storage, store, section)
        IN  /\ 0 <= s.score
            /\ s.score <= s.max_score
            /\ 0 <= s.percentage
            /\ s.percentage <= 100

\* C19: getStoreScore returns a section score breakdown for each of the five
\* fixed sections (availability, checkout, fulfillment, people, culture) for
\* every store identifier, whether or not the store has any stored responses.
C19_FiveBreakdowns ==
    \A store \in ProbeStores :
        DOMAIN StoreScoreOf(responses_storage, store).section_scores
            = {"availability", "checkout", "fulfillment", "people", "culture"}

\* C20: the total_questions reported by getSectionScore for a given (store,
\* section) is a fixed expected count that depends only on the store and the
\* section: it is the same in every reachable state, before and after
\* responses are stored for that section.
C20_TotalQuestionsFixed ==
    [][\A store \in ProbeStores, section \in ProbeSections :
           SectionScoreOf(responses_storage', store, section).total_questions
               = SectionScoreOf(responses_storage, store, section).total_questions]_vars

(***************************************************************************)
(* Properties of the score queries.                                        *)
(***************************************************************************)
\* a section score record: the fields every caller reads, with a score, a
\* percentage and counts that are numbers and one of the three colors
IsSectionScore(s) ==
    /\ {"score", "max_score", "percentage", "color", "questions_completed",
        "total_questions", "normalized"} \subseteq DOMAIN s
    /\ s.score \in Nat
    /\ s.max_score \in Nat
    /\ s.percentage \in Nat
    /\ s.color \in {"green", "yellow", "red"}
    /\ s.questions_completed \in Nat
    /\ s.total_questions \in Nat

\* a store score record
IsStoreScore(t) ==
    /\ {"overall_score", "overall_max_score", "overall_percentage", "overall_color",
        "sections_completed", "total_sections", "section_scores"} \subseteq DOMAIN t
    /\ t.overall_score \in Nat
    /\ t.overall_percentage \in Nat
    /\ t.overall_color \in {"green", "yellow", "red"}
    /\ t.sections_completed \in Nat
    /\ \A section \in DOMAIN t.section_scores : IsSectionScore(t.section_scores[section])

\* the zero-valued record
IsZeroSectionScore(s) ==
    s.score = 0 /\ s.percentage = 0 /\ s.color = "red" /\ s.questions_completed = 0

\* C21: calculateSectionScore and calculateStoreScore are total: for every
\* store and section identifier and every reachable store content (including
\* stored responses that are not records or lack hasIssues) they return a
\* well-formed score record and never propagate an error; where no score can
\* be computed the record is the zero-valued one (score 0, percentage 0,
\* color red, questions_completed 0).
C21_ScoringTotal ==
    \A store \in ScoringStores :
        /\ GetStoreScore(responses_storage, store).response.status = 200
        /\ IsStoreScore(StoreScoreOf(responses_storage, store))
        /\ \A section \in ScoringSections :
               /\ GetSectionScore(responses_storage, store, section).response.status = 200
               /\ IsSectionScore(SectionScoreOf(responses_storage, store, section))
               /\ ~HasResponses(responses_storage, store, section)
                      => IsZeroSectionScore(SectionScoreOf(responses_storage, store, section))

\* getSectionScore has answered for a section that holds a "no" record beside
\* a response that is not a record or has no hasIssues text
C21_Witness ==
    /\ result.op = "get_section_score"
    /\ result.status = 200
    /\ HasResponses(responses_storage, result.store, result.section)
    /\ LET held == responses_storage[result.store][result.section]
       IN  /\ Cardinality(DOMAIN held) = 3
           /\ \E k \in DOMAIN held : held[k] \in {JNull, JList}
           /\ result.body.score.raw_score = 4
           /\ result.body.score.questions_completed = 3

(***************************************************************************)
(* Properties of the batch save.                                           *)
(***************************************************************************)
\* this step is the batch save of `data` at time `now`, answered 200
BatchSavedAt(data, now) ==
    /\ result'.op = "batch_save_responses"
    /\ result'.status = 200
    /\ batch_save_responses(data, now)

\* the value the store holds for a response written at time now
StampedAt(response, now) ==
    IF response.t = "dict"
    THEN JDict([j \in DOMAIN response.f \cup {"saved_timestamp"} |->
                   IF j = "saved_timestamp" THEN JStr(now) ELSE response.f[j]])
    ELSE response

\* C22: a successful saveResponsesBatch(store, section, responsesByKey) stores
\* every entry of the mapping under its key in (store, section) with
\* last-write-wins semantics, returns saved_count equal to the number of
\* entries in the mapping, and afterwards getResponses(store, section)
\* contains every supplied key.
C22_BatchStoresEveryEntry ==
    [][result'.op = "batch_save_responses" =>
          \A data \in OperationBatches, now \in Timestamps :
              BatchSavedAt(data, now) =>
                  LET sent == data.f["responses"].f
                      before == ReadResponses(variant, responses_storage,
                                              TextOf(data.f["store"]), TextOf(data.f["section"]))
                      after == ReadResponses(variant', responses_storage',
                                             TextOf(data.f["store"]), TextOf(data.f["section"]))
                  IN  /\ result'.body.saved_count = Cardinality(DOMAIN sent)
                      /\ DOMAIN after = DOMAIN before \cup DOMAIN sent
                      /\ \A k \in DOMAIN sent : after[k] = StampedAt(sent[k], now)
                      /\ \A k \in DOMAIN before \ DOMAIN sent : after[k] = before[k]]_vars

\* app.py has answered a batch save of two entries and the section holds
\* both keys, one with a string and one with a stamped record
C22_Witness ==
    /\ variant = "app"
    /\ result.op = "batch_save_responses"
    /\ result.status = 200
    /\ result.body.saved_count = 2
    /\ LET held == responses_storage[result.store][result.section]
       IN  /\ Cardinality(DOMAIN held) = 2
           /\ \E k \in DOMAIN held : held[k] = JStr("no")
           /\ \E k \in DOMAIN held :
                  /\ IsDict(held[k])
                  /\ held[k].f["saved_timestamp"] \in {JStr(now) : now \in Timestamps}

\* C23: a saveResponsesBatch call that fails because its input is malformed
\* (valid identifiers, but a responses value that is not a mapping) fails as
\* a whole: the store after the failure equals the store before the call,
\* with no store entry, section entry or response added.
C23_FailedBatchKeepsStore ==
    [][(result'.op = "batch_save_responses" /\ result'.status # 200)
          => responses_storage' = responses_storage]_vars

\* the operations that only read the store
ReadOperations == {"get_responses", "get_section_score", "get_store_score", "refresh_scores"}

\* C24: getResponses, getSectionScore, getStoreScore and refreshScores (for a
\* section or for "all") leave the store unchanged for every store and
\* section identifier, including ones never written.
C24_ReadsKeepStore ==
    [][result'.op \in ReadOperations => responses_storage' = responses_storage]_vars

\* refresh_scores has answered 200 for a store that was never written while
\* another store holds a response, and the never-written store has no entry
C24_Witness ==
    /\ result.op = "refresh_scores"
    /\ result.status = 200
    /\ result.store = "7"
    /\ result.store \notin DOMAIN responses_storage
    /\ KeysOf(responses_storage) # {}

\* the five fixed sections
FiveSections == {"availability", "checkout", "fulfillment", "people", "culture"}

\* C25: for every store and every reachable state, sections_completed
\* returned by getStoreScore equals the number of the five fixed sections
\* that hold at least one stored response for that store, and is therefore
\* between 0 and 5.
C25_SectionsCompleted ==
    \A store \in ScoringStores :
        LET t == StoreScoreOf(responses_storage, store)
        IN  /\ t.sections_completed =
                   Cardinality({section \in FiveSections :
                                   HasResponses(responses_storage, store, section)})
            /\ 0 <= t.sections_completed
            /\ t.sections_completed <= 5

\* getStoreScore has answered 3 sections completed for a store that holds
\* three of the five sections
C25_Witness ==
    /\ result.op = "get_store_score"
    /\ result.status = 200
    /\ result.store \in DOMAIN responses_storage
    /\ Cardinality(DOMAIN responses_storage[result.store]) = 3
    /\ result.body.score.sections_completed = 3

\* C26: for every store with stored responses, getStoreScore returns
\* overall_score equal to the sum of the score values of the five section
\* breakdowns it returns, and overall_percentage = round(overall_score / 46 x
\* 100).
C26_OverallIsSum ==
    \A store \in ScoringStores :
        store \in DOMAIN responses_storage =>
            LET t == StoreScoreOf(responses_storage, store)
            IN  /\ DOMAIN t.section_scores = FiveSections
                /\ t.overall_score =
                       t.section_scores["availability"].score
                       + t.section_scores["checkout"].score
                       + t.section_scores["fulfillment"].score
                       + t.section_scores["people"].score
                       + t.section_scores["culture"].score
                /\ IsRounded(t.overall_percentage, t.overall_score * 100, 46)

\* getStoreScore has answered 27 of 46, 59 percent, over five scored sections
C26_Witness ==
    /\ result.op = "get_store_score"
    /\ result.status = 200
    /\ result.body.score.overall_score = 27
    /\ result.body.score.overall_percentage = 59
    /\ \A section \in FiveSections :
           result.body.score.section_scores[section].questions_completed > 0

(***************************************************************************)
(* Properties of the concurrent score queries.                             *)
(***************************************************************************)
\* what the query of a thread returns when it is served on the store
\* `storage` in one piece
AtomicScore(thread, storage) ==
    IF thread.op = "get_section_score"
    THEN calculate_section_score(storage, thread.store, thread.section)
    ELSE calculate_store_score(storage, thread.store)

\* C27: score reads are atomic with respect to writes: every result of
\* getSectionScore or getStoreScore that runs concurrently with saveResponse
\* calls equals the score of some store state that existed between the
\* read's invocation and its return (never a mix of pre-write and post-write
\* sections, and never the zero-valued fallback record while responses are
\* present).
C27_ScoreReadsAtomic ==
    \A t \in Readers :
        (threads[t].pc = "done" /\ threads[t].rv.status = 200) =>
            \E storage \in threads[t].seen :
                threads[t].rv.body.score = AtomicScore(threads[t], storage)

(***************************************************************************)
(* Properties of a write's effect on the rest of the store.                *)
(***************************************************************************)
\* the section score the module `v` computes
SectionScoreIn(v, storage, store, section) ==
    IF v = "models"
    THEN calculate_section_score(storage, store, section)
    ELSE routes_calculate_section_score(storage, store, section)

\* (store, section) pairs whose scores are compared across a write
FramePairs ==
    {"42", "1660", "7"} \X {"people", "other", "culture", "availability"}

\* C28: a successful saveResponse on (store S, section X, sub-key k) changes
\* only that one entry: every other response in the store is unchanged, and
\* the section score of every other (store, section) pair is the same before
\* and after the write.
C28_WriteChangesOneEntry ==
    [][(result'.op = "save_response" /\ result'.status = 200) =>
          LET written == <<result'.store, result'.section, SavedKey(result')>>
          IN  /\ KeysOf(responses_storage') = KeysOf(responses_storage) \cup {written}
              /\ \A key \in KeysOf(responses_storage) \ {written} :
                     responses_storage'[key[1]][key[2]][key[3]]
                         = responses_storage[key[1]][key[2]][key[3]]
              /\ \A pair \in FramePairs \ {<<result'.store, result'.section>>} :
                     SectionScoreIn(variant', responses_storage', pair[1], pair[2])
                         = SectionScoreIn(variant, responses_storage, pair[1], pair[2])]_vars

\* a save_response has been answered 200 while another section, of the same
\* store or of another one, holds a response
C28_Witness ==
    /\ result.op = "save_response"
    /\ result.status = 200
    /\ \E key \in KeysOf(responses_storage) :
           <<key[1], key[2]>> # <<result.store, result.section>>

(***************************************************************************)
(* Properties of what the scoring reads.                                   *)
(***************************************************************************)
\* resp.get('hasIssues') of a stored response, None when it has none
HasIssuesValue(resp) ==
    IF resp.t = "dict" /\ "hasIssues" \in DOMAIN resp.f THEN resp.f["hasIssues"] ELSE JNull

\* stored responses, and records saved at another time with a further field
AlternativeValues ==
    StoredValues
    \cup {JDict([hasIssues |-> JStr(answer), saved_timestamp |-> JStr("2031-01-01T00:00:00"),
                 comment |-> JStr("checked")]) : answer \in {"no", "yes"}}

\* a record for each hasIssues answer
Revaluations ==
    {alt \in [{JStr("no"), JStr("yes")} -> AlternativeValues] :
        \A value \in DOMAIN alt : HasIssuesValue(alt[value]) = value}

\* the store with the same keys and the same hasIssues value at every key,
\* every record with an answer replaced by the one that alt gives for it
Revalued(storage, alt) ==
    [store \in DOMAIN storage |->
        [section \in DOMAIN storage[store] |->
            [k \in DOMAIN storage[store][section] |->
                IF HasIssuesValue(storage[store][section][k]) \in DOMAIN alt
                THEN alt[HasIssuesValue(storage[store][section][k])]
                ELSE storage[store][section][k]]]]

\* C29: scoring depends on stored responses only through their hasIssues
\* values: two store states that hold the same keys with the same hasIssues
\* value at every key, and differ in any other response field (including
\* saved_timestamp), give identical getSectionScore and getStoreScore results
\* for every store and section.
C29_ScoreReadsHasIssuesOnly ==
    \A store \in ScoringStores :
        LET store_score == StoreScoreOf(responses_storage, store)
            section_score == [section \in ScoringSections |->
                                 SectionScoreOf(responses_storage, store, section)]
        IN  \A alt \in Revaluations :
                LET other == Revalued(responses_storage, alt)
                IN  /\ StoreScoreOf(other, store) = store_score
                    /\ \A section \in ScoringSections :
                           SectionScoreOf(other, store, section) = section_score[section]

\* getSectionScore has answered for a section that holds "no" records and
\* other responses, and a store whose records all have other timestamps and
\* a further field gives the same answer
C29_Witness ==
    /\ result.op = "get_section_score"
    /\ result.status = 200
    /\ result.body.score.questions_completed > 1
    /\ result.body.score.score > 0
    /\ result.body.score.percentage < 100
    /\ \E alt \in Revaluations :
           /\ \A key \in KeysOf(responses_storage) :
                  HasIssuesValue(responses_storage[key[1]][key[2]][key[3]]) \in DOMAIN alt
                      => Revalued(responses_storage, alt)[key[1]][key[2]][key[3]]
                             # responses_storage[key[1]][key[2]][key[3]]
           /\ SectionScoreOf(Revalued(responses_storage, alt), result.store, result.section)
                  = result.body.score

(***************************************************************************)
(* Properties of answers accumulating in a section.                        *)
(***************************************************************************)
SaysNo(resp) ==
    /\ IsDict(resp)
    /\ "hasIssues" \in DOMAIN resp.f
    /\ resp.f["hasIssues"] = JStr("no")

\* the responses a store holds for a section, none when it holds none
HeldIn(storage, store, section) ==
    IF store \in DOMAIN storage /\ section \in DOMAIN storage[store]
    THEN storage[store][section]
    ELSE EmptyDict

\* the step is a save_response that stores a "no" response at a new key, or
\* over a response that is not "no"
AddsPositive ==
    /\ result'.op = "save_response"
    /\ result'.status = 200
    /\ LET before == HeldIn(responses_storage, result'.store, result'.section)
           after == HeldIn(responses_storage', result'.store, result'.section)
       IN \E key \in DOMAIN after :
              /\ SaysNo(after[key])
              /\ key \in DOMAIN before => ~SaysNo(before[key])

\* C30: a save_response that stores a "no" response at a new key, or replaces
\* a response that is not "no" by a "no" response, never decreases the score
\* or the percentage of that section, nor the overall_score of the store.
C30_PositiveNeverDecreases ==
    [][AddsPositive =>
          LET store == result'.store
              section == result'.section
              before == calculate_section_score(responses_storage, store, section)
              after == calculate_section_score(responses_storage', store, section)
          IN /\ after.score >= before.score
             /\ after.percentage >= before.percentage
             /\ calculate_store_score(responses_storage', store).overall_score
                    >= calculate_store_score(responses_storage, store).overall_score]_vars

\* a save has left its section with two "no" responses or more, and the
\* section's score is above zero and below its maximum
C30_Witness ==
    /\ result.op = "save_response"
    /\ result.status = 200
    /\ \E store \in AnsweredStores, section \in {"people", "culture"} :
          /\ store = result.store
          /\ section = result.section
          /\ store \in DOMAIN responses_storage
          /\ section \in DOMAIN responses_storage[store]
          /\ Cardinality({k \in DOMAIN responses_storage[store][section] :
                            SaysNo(responses_storage[store][section][k])}) >= 2
          /\ calculate_section_score(responses_storage, store, section).score > 0
          /\ calculate_section_score(responses_storage, store, section).percentage < 100
====
